---- MODULE Spec2Model ----
(***************************************************************************)
(* Model of the worker-pool engine of src/bot_manager.py: BotManager       *)
(* (the Pool Coordinator), Bot (the Worker), BotProgress and TaskResult.   *)
(*                                                                         *)
(* Tasks of a call are the integers 1..N in submission order, so a task's  *)
(* value is its position.  The task processor is an input of the program:  *)
(* its k-th invocation on task t either returns the value <<t, k>> or      *)
(* raises an Exception whose message is <<t, k>>; which of the two happens *)
(* is chosen freely at every invocation.                                   *)
(***************************************************************************)
EXTENDS Integers, Sequences, FiniteSets, TLC

\* ----- bounds of the model ------------------------------------------------
MaxBots == 2
MaxRetriesBound == 2
MaxTotalTasks == 3
MaxPris == 3
MaxBatchSize == 2
MaxWorkers == 2
MaxSoloCalls == 3
MaxDuration == 2

\* ----- values -------------------------------------------------------------
None == <<>>
NoTask == 0

VARIABLES
    mgr_pc,        \* position of the caller/BotManager: new, config_error, ready,
                   \* collecting (inside execute), returned (execute has returned)
    num_bots,      \* BotManager.num_bots (the constructor argument)
    max_retries,   \* BotManager.max_retries (the constructor argument)
    retry_delay,   \* BotManager.retry_delay (the constructor argument)
    bots,          \* BotManager.bots: sequence of Bot records
    all_results,   \* BotManager.all_results
    tasks,         \* the task list of the current/last execute call
    batches,       \* the last value returned by _divide_tasks
    batches_in,    \* the task list _divide_tasks was last applied to
    report,        \* the last value returned by execute (None before)
    submitted,     \* total number of tasks submitted over all calls
    created,       \* number of Bot objects constructed by the current/last call
    proc_calls,    \* per task of the last non-empty call: processor invocations
    sleeps,        \* per task of the last non-empty call: retry delays slept
    resolved,      \* per task of the last non-empty call: TaskResults constructed
    cfg_pc,        \* BotConfiguration: new (not constructed), ok, error (raised)
    cfg_args,      \* the values handed to BotConfiguration
    cfg,           \* the BotConfiguration object (None unless cfg_pc = "ok")
    cnd_pc,        \* position of the caller/BotConductor: idle, collecting (inside
                   \* extract_data), returned (extract_data has returned)
    max_workers,   \* BotConductor.max_workers
    batch_size,    \* BotConductor.batch_size
    creds_ok,      \* the credentials hold a username and a password
    pri_list,      \* the PRI list of the current/last extract_data call
    pri_batches,   \* the last value returned by divide_pris (None before)
    pri_divided,   \* the PRI list divide_pris was last applied to
    jobs,          \* the _process_batch calls submitted by the current/last call
    cnd_results,   \* extract_data's all_results
    cnd_failed,    \* extract_data's failed_pris
    summary,       \* the last value returned by extract_data (None before)
    solo,          \* a PhoenixBot used directly
    solo_resp,     \* the outcome of its last authentication request
    solo_batch,    \* the batch its extract_batch_data was last called with
    solo_ret,      \* the last value its extract_batch_data returned (None before)
    lock,          \* BotManager._lock: free or held
    loop_pc,       \* position of execute inside an iteration of its as_completed
                   \* loop: wait, acquire, extend, release
    cur,           \* the bot whose future the iteration handles (0 between iterations)
    finished,      \* the bots whose futures have completed, in the order of completion
    entered,       \* how many futures had completed when as_completed was entered
    first_ok,      \* a processor whose outcome depends on task and attempt only:
                   \* first_ok[t] is the attempt at which it first returns for task t
    mon_pc,        \* position of a thread inside monitor_progress: idle, scan, poll,
                   \* sleep, returned
    mon_idx,       \* the bots the loop condition has read so far
    mon_polled,    \* the current/last monitor_progress call has polled
    mon_late,      \* its polls made when every worker had completed
    wk,            \* a Bot used directly, its lock acquisitions taken as steps
    wk_lock,       \* the holder of its _lock: free, worker or observer
    obs_pc,        \* position of a thread calling its get_progress: idle, want, inside
    obs_snap       \* the last snapshot get_progress returned (None before)

mgr_vars == <<mgr_pc, num_bots, max_retries, retry_delay, bots, all_results, tasks,
              batches, batches_in, report, submitted, created, proc_calls, sleeps,
              resolved>>

cfg_vars == <<cfg_pc, cfg_args, cfg>>

cnd_vars == <<cnd_pc, max_workers, batch_size, creds_ok, pri_list, pri_batches,
              pri_divided, jobs, cnd_results, cnd_failed, summary>>

phx_vars == <<solo, solo_resp, solo_batch, solo_ret>>

lck_vars == <<lock, loop_pc, cur>>

aux_vars == <<finished, entered, first_ok>>

mon_vars == <<mon_pc, mon_idx, mon_polled, mon_late>>

wrk_vars == <<wk, wk_lock, obs_pc, obs_snap>>

vars == <<mgr_vars, cfg_vars, cnd_vars, phx_vars, lck_vars, aux_vars, mon_vars, wrk_vars>>

\* what a step of the BotManager or of a Bot leaves alone
OutsideManager == UNCHANGED <<cfg_vars, cnd_vars, phx_vars, lck_vars, aux_vars, mon_vars, wrk_vars>>

\* what the construction of a BotConfiguration leaves alone
OutsideConfig ==
    UNCHANGED <<mgr_vars, cnd_vars, phx_vars, lck_vars, aux_vars, mon_vars, wrk_vars>>

\* ----- helpers ------------------------------------------------------------
Min(a, b) == IF a < b THEN a ELSE b

\* Python's s[a:b] for 0 <= a <= b (indices clamp to the length)
Slice(s, a, b) == SubSeq(s, Min(a, Len(s)) + 1, Min(b, Len(s)))

\* list(range(1, n+1))
TaskList(n) == [i \in 1..n |-> i]

RECURSIVE SumSeq(_)
SumSeq(s) == IF s = <<>> THEN 0 ELSE Head(s) + SumSeq(Tail(s))

RECURSIVE Concat(_)
Concat(ss) == IF ss = <<>> THEN <<>> ELSE Head(ss) \o Concat(Tail(ss))

\* ----- TaskResult and BotProgress ------------------------------------------
TaskResult(bot_id, task, success, result, error) ==
    [bot_id |-> bot_id, task |-> task, success |-> success,
     result |-> result, error |-> error]

BotProgress(bot_id) ==
    [bot_id |-> bot_id, state |-> "idle", tasks_completed |-> 0,
     tasks_failed |-> 0, current_task |-> NoTask, error_message |-> None,
     start_time |-> "None", end_time |-> "None"]

\* BotProgress.to_dict: the state's value, str(current_task) unless falsy
ToDict(p) ==
    [bot_id |-> p.bot_id, state |-> p.state,
     tasks_completed |-> p.tasks_completed, tasks_failed |-> p.tasks_failed,
     current_task |-> IF p.current_task # NoTask THEN <<"str", p.current_task>> ELSE None,
     error_message |-> p.error_message]

\* Bot.__init__ plus the thread's position in process_tasks
\*   pc: new (not submitted), queued, set_current, attempt, sleep, succeeded,
\*       failed, append, finish, return, done (the future holds the results),
\*       faulted (the future holds an exception)
Bot(bot_id, retries, delay) ==
    [bot_id |-> bot_id, max_retries |-> retries, retry_delay |-> delay,
     progress |-> BotProgress(bot_id), results |-> <<>>,
     pc |-> "new", batch |-> <<>>, idx |-> 0, attempt |-> 0,
     last_error |-> None, pending |-> None, collected |-> FALSE]

\* Bot.get_progress: a copy of the progress, taken under the bot's lock
GetProgress(bot) ==
    [bot_id |-> bot.progress.bot_id, state |-> bot.progress.state,
     tasks_completed |-> bot.progress.tasks_completed,
     tasks_failed |-> bot.progress.tasks_failed,
     current_task |-> bot.progress.current_task,
     error_message |-> bot.progress.error_message,
     start_time |-> bot.progress.start_time,
     end_time |-> bot.progress.end_time]

\* ----- the task processor (an input) ---------------------------------------
ProcValue(t, k) == <<t, k>>
ProcError(t, k) == <<t, k>>

\* ----- BotManager.__init__ --------------------------------------------------
\* faulty variant: zero is accepted
InvalidNumBotsOff(n) == n < 0
InvalidNumBots(n) == n <= 0

Construct ==
    /\ mgr_pc = "new"
    /\ mgr_pc' = IF InvalidNumBots(num_bots) THEN "config_error" ELSE "ready"
    /\ UNCHANGED <<num_bots, max_retries, retry_delay, bots, all_results, tasks, batches,
                   batches_in, report, submitted, created, proc_calls,
                   sleeps, resolved>>
    /\ OutsideManager

\* ----- BotManager._divide_tasks ---------------------------------------------
\* faulty variant: one slice too many takes part of the remainder
CurrentBatchSizeOff(len, n, i) == (len \div n) + (IF i <= len % n THEN 1 ELSE 0)
CurrentBatchSize(len, n, i) == (len \div n) + (IF i < len % n THEN 1 ELSE 0)

RECURSIVE DivideLoop(_, _, _, _, _)
DivideLoop(ts, n, i, start_idx, acc) ==
    IF i >= n THEN acc
    ELSE LET end_idx == start_idx + CurrentBatchSize(Len(ts), n, i)
         IN DivideLoop(ts, n, i + 1, end_idx, Append(acc, Slice(ts, start_idx, end_idx)))

DivideTasks(ts, n) ==
    IF ts = <<>> THEN [i \in 1..n |-> <<>>]
    ELSE DivideLoop(ts, n, 0, 0, <<>>)

\* a direct call of _divide_tasks on a manager that has not executed yet, as
\* the tests make it (the function reads num_bots only)
DivideCall(ts) ==
    /\ mgr_pc = "ready"
    /\ batches' = DivideTasks(ts, num_bots)
    /\ batches_in' = ts
    /\ UNCHANGED <<mgr_pc, num_bots, max_retries, retry_delay, bots, all_results, tasks,
                   report, submitted, created, proc_calls, sleeps,
                   resolved>>
    /\ OutsideManager

\* ----- BotManager._compile_results ------------------------------------------
\* faulty variant: every result counts as successful
IsSuccessOff(r) == TRUE
IsSuccess(r) == r.success

\* faulty variant: a failure is a result that carries an error message
IsFailureOff(r) == r.error # None
IsFailure(r) == ~r.success

FailedTask(r) == [task |-> r.task, error |-> r.error, bot_id |-> r.bot_id]

\* success_rate is the exact rational num/den
CompileResults(results, bs) ==
    LET successful == SelectSeq(results, IsSuccess)
        failed == SelectSeq(results, IsFailure)
    IN [total_tasks |-> Len(results),
        successful |-> Len(successful),
        failed |-> Len(failed),
        success_rate |-> IF results # <<>>
                         THEN [num |-> Len(successful) * 100, den |-> Len(results)]
                         ELSE [num |-> 0, den |-> 1],
        results |-> results,
        bot_progress |-> [i \in 1..Len(bs) |-> ToDict(GetProgress(bs[i]))],
        failed_tasks |-> [i \in 1..Len(failed) |-> FailedTask(failed[i])]]

\* ----- BotManager.execute ---------------------------------------------------
\* faulty variant: no early return for an empty task list
NoTasksOff(ts) == FALSE
NoTasks(ts) == ts = <<>>

\* lines 309-313: only a bot with a non-empty batch is submitted
\* faulty variant: every bot is submitted
SubmitOff(bot, batch) == [bot EXCEPT !.pc = "queued", !.batch = batch]
Submit(bot, batch) ==
    IF batch # <<>> THEN [bot EXCEPT !.pc = "queued", !.batch = batch] ELSE bot

ExecuteBody(ts) ==
    /\ mgr_pc \in {"ready", "returned"}
    /\ submitted' = submitted + Len(ts)
    /\ tasks' = ts
    /\ IF NoTasks(ts)
       THEN /\ report' = CompileResults(<<>>, bots)
            /\ created' = 0
            /\ mgr_pc' = "returned"
            /\ UNCHANGED <<bots, batches, batches_in, proc_calls,
                           sleeps, resolved>>
       ELSE /\ proc_calls' = [t \in 1..Len(ts) |-> 0]
            /\ sleeps' = [t \in 1..Len(ts) |-> 0]
            /\ resolved' = [t \in 1..Len(ts) |-> 0]
            /\ batches' = DivideTasks(ts, num_bots)
            /\ batches_in' = ts
            /\ bots' = [i \in 1..num_bots |->
                          Submit(Bot(i - 1, max_retries, retry_delay), batches'[i])]
            /\ created' = num_bots
            /\ report' = None
            /\ mgr_pc' = "collecting"
    /\ UNCHANGED <<num_bots, max_retries, retry_delay, all_results>>

ExecuteCall(ts) ==
    /\ ExecuteBody(ts)
    /\ OutsideManager

\* execute, as long as the model's budget of submitted tasks lasts
Execute(ts) ==
    /\ submitted + Len(ts) <= MaxTotalTasks
    /\ ExecuteCall(ts)

\* lines 318-323: future.result() returns the worker's results, which are
\* appended, or raises the worker's exception, which is only logged
Extend(results, bot) ==
    IF bot.pc = "done" THEN results \o bot.results ELSE results

\* as_completed yields a future once it holds a result or an exception
\* faulty variant: a future that holds a result is never yielded
FutureDoneOff(bot) == bot.pc = "faulted"
FutureDone(bot) == bot.pc \in {"done", "faulted"}

\* one iteration of the as_completed loop
Collect(b) ==
    /\ mgr_pc = "collecting"
    /\ FutureDone(bots[b])
    /\ ~bots[b].collected
    /\ all_results' = Extend(all_results, bots[b])
    /\ bots' = [bots EXCEPT ![b].collected = TRUE]
    /\ UNCHANGED <<mgr_pc, num_bots, max_retries, retry_delay, tasks, batches, batches_in,
                   report, submitted, created, proc_calls, sleeps,
                   resolved>>
    /\ OutsideManager

\* ----- the as_completed loop of execute, statement by statement ------------------
\* Collect above is one iteration of the loop as a single step.  Here the
\* iteration is split at the acquisition and the release of self._lock.
LoopUnchanged ==
    UNCHANGED <<mgr_pc, num_bots, max_retries, retry_delay, tasks, batches, batches_in,
                report, submitted, created, proc_calls, sleeps, resolved,
                cfg_vars, cnd_vars, phx_vars, aux_vars, mon_vars, wrk_vars>>

\* lines 317-319: as_completed yields the future of bot b; future.result()
\* returns its results, or raises and the iteration ends in the except clause
FutureResult(b) ==
    /\ mgr_pc = "collecting"
    /\ loop_pc = "wait"
    /\ FutureDone(bots[b])
    /\ ~bots[b].collected
    /\ IF bots[b].pc = "faulted"
       THEN /\ bots' = [bots EXCEPT ![b].collected = TRUE]
            /\ UNCHANGED <<loop_pc, cur>>
       ELSE /\ loop_pc' = "acquire"
            /\ cur' = b
            /\ UNCHANGED bots
    /\ UNCHANGED <<all_results, lock>>
    /\ LoopUnchanged

\* line 320: with self._lock, entry
AcquireLock ==
    /\ loop_pc = "acquire"
    /\ lock = "free"
    /\ lock' = "held"
    /\ loop_pc' = "extend"
    /\ UNCHANGED <<bots, all_results, cur>>
    /\ LoopUnchanged

\* line 321: self.all_results.extend(results)
ExtendResults ==
    /\ loop_pc = "extend"
    /\ all_results' = Extend(all_results, bots[cur])
    /\ loop_pc' = "release"
    /\ UNCHANGED <<bots, lock, cur>>
    /\ LoopUnchanged

\* line 320: with self._lock, exit
\* faulty variant: the lock is kept
ReleaseOff(l) == l
Release(l) == "free"

ReleaseLock ==
    /\ loop_pc = "release"
    /\ lock' = Release(lock)
    /\ bots' = [bots EXCEPT ![cur].collected = TRUE]
    /\ loop_pc' = "wait"
    /\ cur' = 0
    /\ UNCHANGED all_results
    /\ LoopUnchanged

\* as_completed has yielded every submitted future
\* faulty variant: the loop ends with the first future that is yielded
AsCompletedExhaustedOff(bs) == \E b \in 1..Len(bs) : bs[b].collected
AsCompletedExhausted(bs) == \A b \in 1..Len(bs) : bs[b].pc = "new" \/ bs[b].collected

\* as_completed is exhausted, the executor shuts down, the report is compiled
Return ==
    /\ mgr_pc = "collecting"
    /\ AsCompletedExhausted(bots)
    /\ report' = CompileResults(all_results, bots)
    /\ mgr_pc' = "returned"
    /\ UNCHANGED <<num_bots, max_retries, retry_delay, bots, all_results, tasks, batches,
                   batches_in, submitted, created, proc_calls, sleeps,
                   resolved>>
    /\ OutsideManager

\* ----- Bot.process_tasks and Bot._process_single_task ------------------------
BotUnchanged ==
    /\ UNCHANGED <<mgr_pc, num_bots, max_retries, retry_delay, all_results, tasks,
                   batches, batches_in, report, submitted, created>>
    /\ OutsideManager

\* the for loop of process_tasks: the next task, or the end of the slice
\* faulty variant: a failed task ends the slice
NextTaskOff(bot) ==
    IF bot.idx < Len(bot.batch)
       /\ (bot.results = <<>> \/ bot.results[Len(bot.results)].success)
    THEN [bot EXCEPT !.pc = "set_current"]
    ELSE [bot EXCEPT !.pc = "finish"]

NextTask(bot) ==
    IF bot.idx < Len(bot.batch) THEN [bot EXCEPT !.pc = "set_current"]
    ELSE [bot EXCEPT !.pc = "finish"]

\* the for loop of _process_single_task: the next attempt, or exhaustion
NextAttempt(bot) ==
    IF bot.attempt < bot.max_retries THEN [bot EXCEPT !.pc = "attempt"]
    ELSE [bot EXCEPT !.pc = "failed"]

\* the task of the current iteration of `for task in tasks`
\* faulty variant: the slice is walked from its end
CurTaskOff(bot) == bot.batch[Len(bot.batch) - bot.idx]
CurTask(bot) == bot.batch[bot.idx + 1]

\* process_tasks, lines 119-121
\* faulty variant: the state is left Idle
MarkActiveOff(bot) == [bot EXCEPT !.progress.start_time = "set"]
MarkActive(bot) == [bot EXCEPT !.progress.state = "active",
                               !.progress.start_time = "set"]

\* a worker thread is inside process_tasks
IsRunning(bot) == bot.pc \notin {"new", "queued", "done", "faulted"}

\* execute, line 307: ThreadPoolExecutor(max_workers=self.num_bots)
\* faulty variant: a pool of one thread
PoolSizeOff(n) == 1
PoolSize(n) == n

\* a thread of the pool takes the submitted call
BotStart(b) ==
    /\ bots[b].pc = "queued"
    /\ Cardinality({c \in 1..Len(bots) : IsRunning(bots[c])}) < PoolSize(num_bots)
    /\ bots' = [bots EXCEPT ![b] = NextTask(MarkActive(bots[b]))]
    /\ UNCHANGED <<proc_calls, sleeps, resolved>>
    /\ BotUnchanged

\* _process_single_task, lines 150-154
SetCurrent(bot) ==
    NextAttempt([bot EXCEPT !.progress.current_task = CurTask(bot),
                            !.attempt = 0,
                            !.last_error = None])

BotSetCurrent(b) ==
    /\ bots[b].pc = "set_current"
    /\ bots' = [bots EXCEPT ![b] = SetCurrent(bots[b])]
    /\ UNCHANGED <<proc_calls, sleeps, resolved>>
    /\ BotUnchanged

\* _process_single_task, lines 157-158 and 172-179: one processor invocation
\* faulty variant: a delay also follows the final attempt
HasRetryLeftOff(attempt, retries) == attempt < retries
HasRetryLeft(attempt, retries) == attempt < retries - 1

\* the bot after the processor has returned (ok) or raised
Attempted(bot, ok) ==
    LET t == CurTask(bot)
        k == bot.attempt + 1
    IN IF ok
       THEN [bot EXCEPT !.pc = "succeeded",
                        !.pending = TaskResult(bot.bot_id, t, TRUE, ProcValue(t, k), None)]
       ELSE IF HasRetryLeft(bot.attempt, bot.max_retries)
            THEN [bot EXCEPT !.pc = "sleep", !.last_error = ProcError(t, k)]
            ELSE NextAttempt([bot EXCEPT !.attempt = @ + 1,
                                         !.last_error = ProcError(t, k)])

BotAttempt(b, ok) ==
    /\ bots[b].pc = "attempt"
    /\ proc_calls' = [proc_calls EXCEPT ![CurTask(bots[b])] = @ + 1]
    /\ bots' = [bots EXCEPT ![b] = Attempted(bots[b], ok)]
    /\ UNCHANGED <<sleeps, resolved>>
    /\ BotUnchanged

\* time.sleep raises ValueError for a negative argument
SleepRaises(delay) == delay < 0

\* _process_single_task, line 179: time.sleep(retry_delay), then the next
\* attempt.  An error of time.sleep is raised inside the except clause, so it
\* leaves _process_single_task and process_tasks and ends up in the future.
Slept(bot) ==
    IF SleepRaises(bot.retry_delay) THEN [bot EXCEPT !.pc = "faulted"]
    ELSE NextAttempt([bot EXCEPT !.attempt = @ + 1])

BotSleep(b) ==
    /\ bots[b].pc = "sleep"
    /\ IF SleepRaises(bots[b].retry_delay)
       THEN UNCHANGED sleeps
       ELSE sleeps' = [sleeps EXCEPT ![CurTask(bots[b])] = @ + 1]
    /\ bots' = [bots EXCEPT ![b] = Slept(bots[b])]
    /\ UNCHANGED <<proc_calls, resolved>>
    /\ BotUnchanged

\* _process_single_task, lines 161-170
\* faulty variant: a success is also counted as a failure
RecordSuccessOff(bot) == [bot EXCEPT !.progress.tasks_completed = @ + 1,
                                     !.progress.tasks_failed = @ + 1]
RecordSuccess(bot) == [bot EXCEPT !.progress.tasks_completed = @ + 1]

Succeeded(bot) == [RecordSuccess(bot) EXCEPT !.pc = "append"]

BotSucceeded(b) ==
    /\ bots[b].pc = "succeeded"
    /\ bots' = [bots EXCEPT ![b] = Succeeded(bots[b])]
    /\ resolved' = [resolved EXCEPT ![CurTask(bots[b])] = @ + 1]
    /\ UNCHANGED <<proc_calls, sleeps>>
    /\ BotUnchanged

\* _process_single_task, lines 182-194
\* faulty variant: the failed count is not incremented
RecordFailureOff(bot) == [bot EXCEPT !.progress.error_message = bot.last_error]
RecordFailure(bot) == [bot EXCEPT !.progress.tasks_failed = @ + 1,
                                  !.progress.error_message = bot.last_error]

Failed(bot) ==
    [RecordFailure(bot) EXCEPT
       !.pending = TaskResult(bot.bot_id, CurTask(bot), FALSE, None, bot.last_error),
       !.pc = "append"]

BotFailed(b) ==
    /\ bots[b].pc = "failed"
    /\ bots' = [bots EXCEPT ![b] = Failed(bots[b])]
    /\ resolved' = [resolved EXCEPT ![CurTask(bots[b])] = @ + 1]
    /\ UNCHANGED <<proc_calls, sleeps>>
    /\ BotUnchanged

\* process_tasks, line 125: self.results.append(result)
\* faulty variant: the result is dropped
AppendResultOff(bot) == [bot EXCEPT !.pending = None, !.idx = @ + 1]
AppendResult(bot) == [bot EXCEPT !.results = Append(@, bot.pending),
                                 !.pending = None,
                                 !.idx = @ + 1]

\* process_tasks, line 125, and the loop's next iteration
BotAppend(b) ==
    /\ bots[b].pc = "append"
    /\ bots' = [bots EXCEPT ![b] = NextTask(AppendResult(bots[b]))]
    /\ UNCHANGED <<proc_calls, sleeps, resolved>>
    /\ BotUnchanged

\* process_tasks, lines 127-130
\* faulty variant: the end timestamp is not set
MarkCompletedOff(bot) == [bot EXCEPT !.progress.state = "completed",
                                     !.progress.current_task = NoTask]
MarkCompleted(bot) == [bot EXCEPT !.progress.state = "completed",
                                  !.progress.end_time = "set",
                                  !.progress.current_task = NoTask]

Completed(bot) == [MarkCompleted(bot) EXCEPT !.pc = "return"]

BotFinish(b) ==
    /\ bots[b].pc = "finish"
    /\ bots' = [bots EXCEPT ![b] = Completed(bots[b])]
    /\ UNCHANGED <<proc_calls, sleeps, resolved>>
    /\ BotUnchanged

\* process_tasks, line 138: the future completes with self.results
BotReturn(b) ==
    /\ bots[b].pc = "return"
    /\ bots' = [bots EXCEPT ![b].pc = "done"]
    /\ UNCHANGED <<proc_calls, sleeps, resolved>>
    /\ BotUnchanged

\* ----- BotConfiguration (src/bot_config.py) -----------------------------------
ConfigKeys == {"num_bots", "max_retries", "retry_delay", "monitor_interval"}

\* the defaults of the dataclass fields
ConfigDefaults ==
    [num_bots |-> 4, max_retries |-> 3, retry_delay |-> 1, monitor_interval |-> 1]

\* the generated __init__: a keyword that is given, else the field's default
FieldValue(args, k) == IF k \in args.present THEN args.vals[k] ELSE ConfigDefaults[k]

ConfigObject(args) == [k \in ConfigKeys |-> FieldValue(args, k)]

\* __post_init__: does the validation raise ValueError?
\* faulty variant: the retry delay is not validated
PostInitRaisesOff(c) ==
    \/ c.num_bots <= 0
    \/ c.max_retries < 0
    \/ c.monitor_interval <= 0

PostInitRaises(c) ==
    \/ c.num_bots <= 0
    \/ c.max_retries < 0
    \/ c.retry_delay < 0
    \/ c.monitor_interval <= 0

\* cls(**kwargs): the generated __init__, then __post_init__
ConstructConfig(args) ==
    /\ cfg_pc = "new"
    /\ IF PostInitRaises(ConfigObject(args))
       THEN cfg_pc' = "error" /\ cfg' = None
       ELSE cfg_pc' = "ok" /\ cfg' = ConfigObject(args)
    /\ UNCHANGED cfg_args
    /\ OutsideConfig

\* BotConfiguration(**kwargs); a keyword that is no field raises TypeError
ConfigDirect ==
    IF cfg_args.extra
    THEN /\ cfg_pc = "new"
         /\ cfg_pc' = "error"
         /\ UNCHANGED <<cfg_args, cfg>>
         /\ OutsideConfig
    ELSE ConstructConfig(cfg_args)

\* from_dict: keys that are no fields are dropped
ConfigFromDict == ConstructConfig([cfg_args EXCEPT !.extra = FALSE])

\* from_json_file, from_yaml_file: the loaded dictionary goes to from_dict
ConfigFromFile == ConfigFromDict

\* ----- AuthManager and PhoenixBot (src/auth_manager.py, src/phoenix_bot.py) ----
\* PRIs of a call are the integers 1..L in list order.  The network is an
\* input: the authentication request and every query have one of the
\* outcomes below, chosen freely at every request.
NoCookie == "None"

\* session.post: 200 with cookies, 200 without cookies, another status,
\* requests Timeout, another RequestException, any other Exception
AuthResponses == {"cookies", "no_cookies", "rejected", "timeout", "request_error", "error"}

\* no request is made
NoRequest == "no_request"

\* AuthManager.get_cookie
GetCookie(has_credentials, resp) ==
    IF ~has_credentials THEN NoCookie
    ELSE CASE resp = "cookies" -> "session"
           [] resp = "no_cookies" -> "mock"
           [] resp = "rejected" -> NoCookie
           [] resp = "timeout" -> NoCookie
           [] resp = "request_error" -> "mock"
           [] OTHER -> NoCookie

\* the requests get_cookie can see: none without a username and a password
Requests(has_credentials) == IF has_credentials THEN AuthResponses ELSE {NoRequest}

Event(op, pri) == [op |-> op, pri |-> pri]

\* PhoenixBot.__init__; log lists the calls made on the bot and its queries
PhoenixBot(batch_id) ==
    [batch_id |-> batch_id, authenticated |-> FALSE, cookie |-> NoCookie, log |-> <<>>]

\* PhoenixBot.authenticate: the bot afterwards, and the value returned
Authenticate(bot, has_credentials, resp) ==
    LET c == GetCookie(has_credentials, resp)
    IN [bot EXCEPT !.cookie = c,
                   !.authenticated = IF c # NoCookie THEN TRUE ELSE @,
                   !.log = Append(@, Event("authenticate", 0))]

AuthenticateReturns(has_credentials, resp) == GetCookie(has_credentials, resp) # NoCookie

\* _query_phoenix: 200 with data, 200 with an empty body, or None (another
\* status, a timeout, any exception)
QueryOutcomes == {"data", "empty", "none"}

QueryData(pri) == <<"data", pri>>

ExtractionResult(bot, pri) == [pri |-> pri, data |-> QueryData(pri), bot_id |-> bot.batch_id]

BatchReturn(results, failed) == [results |-> results, failed |-> failed]

\* the loop of extract_batch_data, lines 100-119
RECURSIVE ExtractLoop(_, _, _, _, _)
ExtractLoop(bot, batch, outs, i, acc) ==
    IF i > Len(batch) THEN acc
    ELSE LET queried == [acc EXCEPT !.log = Append(@, Event("query", batch[i]))]
         IN ExtractLoop(bot, batch, outs, i + 1,
                IF outs[i] = "data"
                THEN [queried EXCEPT !.results = Append(@, ExtractionResult(bot, batch[i]))]
                ELSE [queried EXCEPT !.failed = Append(@, batch[i])])

\* lines 91-93: is the extraction refused?
\* faulty variant: the flag is not looked at
NotAuthenticatedOff(bot) == FALSE
NotAuthenticated(bot) == ~bot.authenticated

\* PhoenixBot.extract_batch_data: results, failed and the bot's log afterwards
ExtractBatchData(bot, batch, outs) ==
    LET called == Append(bot.log, Event("extract", 0))
    IN IF NotAuthenticated(bot)
       THEN [results |-> <<>>, failed |-> batch, log |-> called]
       ELSE ExtractLoop(bot, batch, outs, 1,
                        [results |-> <<>>, failed |-> <<>>, log |-> called])

\* PhoenixBot.cleanup
Cleanup(bot) == [bot EXCEPT !.log = Append(@, Event("cleanup", 0))]

\* ----- a PhoenixBot used directly, as the tests use it --------------------------
OutsidePhoenix ==
    UNCHANGED <<mgr_vars, cfg_vars, cnd_vars, lck_vars, aux_vars, mon_vars, wrk_vars>>

\* the calls made on the bot so far
SoloCalls == Cardinality({i \in 1..Len(solo.log) : solo.log[i].op # "query"})

SoloAuthenticate(resp) ==
    /\ SoloCalls < MaxSoloCalls
    /\ solo' = Authenticate(solo, creds_ok, resp)
    /\ solo_resp' = resp
    /\ UNCHANGED <<solo_batch, solo_ret>>
    /\ OutsidePhoenix

SoloExtract(batch, outs) ==
    /\ SoloCalls < MaxSoloCalls
    /\ solo_batch' = batch
    /\ UNCHANGED solo_resp
    /\ LET r == ExtractBatchData(solo, batch, outs)
       IN /\ solo' = [solo EXCEPT !.log = r.log]
          /\ solo_ret' = BatchReturn(r.results, r.failed)
    /\ OutsidePhoenix

\* ----- BotConductor (src/bot_conductor.py) ---------------------------------------
OutsideConductor ==
    UNCHANGED <<mgr_vars, cfg_vars, phx_vars, lck_vars, aux_vars, mon_vars, wrk_vars>>

\* divide_pris, line 65
\* faulty variant: a batch takes one PRI too many
PriBatchOff(pris, i, size) == Slice(pris, i, i + size + 1)
PriBatch(pris, i, size) == Slice(pris, i, i + size)

\* divide_pris, lines 63-66: for i in range(0, len(pri_list), batch_size)
RECURSIVE DividePrisLoop(_, _, _, _)
DividePrisLoop(pris, size, i, acc) ==
    IF i >= Len(pris) THEN acc
    ELSE DividePrisLoop(pris, size, i + size, Append(acc, PriBatch(pris, i, size)))

DividePris(pris, size) ==
    IF pris = <<>> THEN <<>> ELSE DividePrisLoop(pris, size, 0, <<>>)

\* a direct call of divide_pris on a conductor that has extracted nothing yet,
\* as the tests make it
DividePrisCall(pris) ==
    /\ cnd_pc = "idle"
    /\ pri_batches' = DividePris(pris, batch_size)
    /\ pri_divided' = pris
    /\ UNCHANGED <<cnd_pc, max_workers, batch_size, creds_ok, pri_list, jobs,
                   cnd_results, cnd_failed, summary>>
    /\ OutsideConductor

\* one submitted _process_batch call
\*   pc: queued, authenticate, extract, cleanup, done (the future holds ret)
Job(batch_idx, batch) ==
    [pc |-> "queued", batch_idx |-> batch_idx, batch |-> batch,
     bot |-> PhoenixBot(batch_idx), ret |-> BatchReturn(<<>>, <<>>),
     collected |-> FALSE]

\* lines 94-100: the report of a call without batches
\* faulty variant: the call goes on without batches
NoBatchesOff(bs) == FALSE
NoBatches(bs) == bs = <<>>

NoPrisSummary ==
    [status |-> "error", message |-> "No PRIs to process", results |-> <<>>,
     failed |-> <<>>]

\* extract_data, lines 89-118
ExtractData(pris) ==
    /\ cnd_pc \in {"idle", "returned"}
    /\ pri_list' = pris
    /\ pri_batches' = DividePris(pris, batch_size)
    /\ pri_divided' = pris
    /\ cnd_results' = <<>>
    /\ cnd_failed' = <<>>
    /\ IF NoBatches(pri_batches')
       THEN /\ summary' = NoPrisSummary
            /\ jobs' = <<>>
            /\ cnd_pc' = "returned"
       ELSE /\ jobs' = [i \in 1..Len(pri_batches') |-> Job(i - 1, pri_batches'[i])]
            /\ summary' = None
            /\ cnd_pc' = "collecting"
    /\ UNCHANGED <<max_workers, batch_size, creds_ok>>
    /\ OutsideConductor

JobUnchanged ==
    /\ UNCHANGED <<cnd_pc, max_workers, batch_size, creds_ok, pri_list, pri_batches,
                   pri_divided, cnd_results, cnd_failed, summary>>
    /\ OutsideConductor

JobRunning(job) == job.pc \in {"authenticate", "extract", "cleanup"}

\* extract_data, line 107: ThreadPoolExecutor(max_workers=self.max_workers)
\* faulty variant: the pool has one thread more
WorkerPoolOff(workers) == workers + 1
WorkerPool(workers) == workers

\* a thread of the pool takes the call, the calls being taken in the order of
\* their submission: _process_batch, lines 177-183
JobStart(j) ==
    /\ jobs[j].pc = "queued"
    /\ \A k \in 1..(j - 1) : jobs[k].pc # "queued"
    /\ Cardinality({k \in 1..Len(jobs) : JobRunning(jobs[k])}) < WorkerPool(max_workers)
    /\ jobs' = [jobs EXCEPT ![j].pc = "authenticate"]
    /\ JobUnchanged

\* _process_batch, lines 187-191
\* faulty variant: the extraction follows a failed authentication as well
AuthFailedOff(has_credentials, resp) == FALSE
AuthFailed(has_credentials, resp) == ~AuthenticateReturns(has_credentials, resp)

JobAuthenticate(j, resp) ==
    /\ jobs[j].pc = "authenticate"
    /\ LET job == jobs[j]
           bot == Authenticate(job.bot, creds_ok, resp)
       IN jobs' = [jobs EXCEPT ![j] =
                     IF AuthFailed(creds_ok, resp)
                     THEN [job EXCEPT !.bot = bot, !.pc = "cleanup",
                                      !.ret = BatchReturn(<<>>, job.batch)]
                     ELSE [job EXCEPT !.bot = bot, !.pc = "extract"]]
    /\ JobUnchanged

\* _process_batch, lines 194-196
JobExtract(j, outs) ==
    /\ jobs[j].pc = "extract"
    /\ LET job == jobs[j]
           r == ExtractBatchData(job.bot, job.batch, outs)
       IN jobs' = [jobs EXCEPT ![j] =
                     [job EXCEPT !.bot.log = r.log, !.pc = "cleanup",
                                 !.ret = BatchReturn(r.results, r.failed)]]
    /\ JobUnchanged

\* _process_batch, lines 198-200: the return of the except clause
\* faulty variant: the PRIs of the batch are not reported as failed
RaisedReturnOff(batch) == BatchReturn(<<>>, <<>>)
RaisedReturn(batch) == BatchReturn(<<>>, batch)

\* _process_batch, lines 198-200: extract_batch_data raises
JobExtractRaises(j) ==
    /\ jobs[j].pc = "extract"
    /\ LET job == jobs[j]
       IN jobs' = [jobs EXCEPT ![j] =
                     [job EXCEPT !.bot.log = Append(@, Event("extract", 0)),
                                 !.pc = "cleanup",
                                 !.ret = RaisedReturn(job.batch)]]
    /\ JobUnchanged

\* _process_batch, lines 202-204: the finally clause, then the return
\* faulty variant: the bot is only cleaned up when it was authenticated
NeedsCleanupOff(bot) == bot.authenticated
NeedsCleanup(bot) == TRUE

JobCleanup(j) ==
    /\ jobs[j].pc = "cleanup"
    /\ jobs' = [jobs EXCEPT ![j] =
                  [jobs[j] EXCEPT !.bot = IF NeedsCleanup(jobs[j].bot)
                                          THEN Cleanup(jobs[j].bot) ELSE jobs[j].bot,
                                  !.pc = "done"]]
    /\ JobUnchanged

\* extract_data, lines 121-135: one iteration of the as_completed loop
JobCollect(j) ==
    /\ cnd_pc = "collecting"
    /\ jobs[j].pc = "done"
    /\ ~jobs[j].collected
    /\ cnd_results' = cnd_results \o jobs[j].ret.results
    /\ cnd_failed' = cnd_failed \o jobs[j].ret.failed
    /\ jobs' = [jobs EXCEPT ![j].collected = TRUE]
    /\ UNCHANGED <<cnd_pc, max_workers, batch_size, creds_ok, pri_list, pri_batches,
                   pri_divided, summary>>
    /\ OutsideConductor

\* extract_data, lines 143-156
ExtractReturn ==
    /\ cnd_pc = "collecting"
    /\ \A j \in 1..Len(jobs) : jobs[j].collected
    /\ summary' = [status |-> "completed", total_pris |-> Len(pri_list),
                   successful |-> Len(cnd_results), failed |-> Len(cnd_failed),
                   results |-> cnd_results, failed_pris |-> cnd_failed]
    /\ cnd_pc' = "returned"
    /\ UNCHANGED <<max_workers, batch_size, creds_ok, pri_list, pri_batches,
                   pri_divided, jobs, cnd_results, cnd_failed>>
    /\ OutsideConductor

\* ----- the specifications ---------------------------------------------------
ConfigIdle ==
    /\ cfg_pc = "new"
    /\ cfg_args = [vals |-> ConfigDefaults, present |-> {}, extra |-> FALSE]
    /\ cfg = None

\* a BotConductor(max_workers, batch_size) that has not been called yet
ConductorAt(workers, size, has_credentials) ==
    /\ cnd_pc = "idle"
    /\ max_workers = workers
    /\ batch_size = size
    /\ creds_ok = has_credentials
    /\ pri_list = <<>>
    /\ pri_batches = None
    /\ pri_divided = <<>>
    /\ jobs = <<>>
    /\ cnd_results = <<>>
    /\ cnd_failed = <<>>
    /\ summary = None

PhoenixIdle ==
    /\ solo = PhoenixBot(0)
    /\ solo_resp = NoRequest
    /\ solo_batch = <<>>
    /\ solo_ret = None

ConductorIdle == ConductorAt(1, 1, TRUE) /\ PhoenixIdle

\* a BotManager before its construction
ManagerNew ==
    /\ mgr_pc = "new"
    /\ bots = <<>>
    /\ all_results = <<>>
    /\ tasks = <<>>
    /\ batches = None
    /\ batches_in = <<>>
    /\ report = None
    /\ submitted = 0
    /\ created = 0
    /\ proc_calls = <<>>
    /\ sleeps = <<>>
    /\ resolved = <<>>

\* BotManager._lock before any execute call
LockIdle ==
    /\ lock = "free"
    /\ loop_pc = "wait"
    /\ cur = 0

\* as_completed has not been entered
NotEntered == -1

\* no future has completed; no processor table is in use
AuxIdle ==
    /\ finished = <<>>
    /\ entered = NotEntered
    /\ first_ok = <<>>

\* no thread is inside monitor_progress
MonitorIdle ==
    /\ mon_pc = "idle"
    /\ mon_idx = 0
    /\ mon_polled = FALSE
    /\ mon_late = 0

\* no Bot is driven directly
WorkerIdle ==
    /\ wk = Bot(0, 1, 0)
    /\ wk_lock = "free"
    /\ obs_pc = "idle"
    /\ obs_snap = None

ManagerIdle ==
    /\ ManagerNew
    /\ num_bots = 1
    /\ max_retries = 1
    /\ retry_delay = 0
    /\ LockIdle
    /\ AuxIdle
    /\ MonitorIdle
    /\ WorkerIdle

\* everything but the retry delay given to the constructor
InitRest ==
    /\ mgr_pc = "new"
    /\ num_bots \in -1..MaxBots
    /\ max_retries \in -1..MaxRetriesBound
    /\ bots = <<>>
    /\ all_results = <<>>
    /\ tasks = <<>>
    /\ batches = None
    /\ batches_in = <<>>
    /\ report = None
    /\ submitted = 0
    /\ created = 0
    /\ proc_calls = <<>>
    /\ sleeps = <<>>
    /\ resolved = <<>>
    /\ ConfigIdle
    /\ ConductorIdle
    /\ LockIdle
    /\ AuxIdle
    /\ MonitorIdle
    /\ WorkerIdle

\* Spec: the retry delay is a duration time.sleep accepts
Init == InitRest /\ retry_delay = 0

\* SpecFault: the constructor is also given a negative retry delay, which it
\* stores unchecked; the first retry of such a worker faults in time.sleep
InitFault == InitRest /\ retry_delay \in {-1, 0}

Next ==
    \/ Construct
    \/ \E n \in 0..MaxTotalTasks : Execute(TaskList(n))
    \/ \E n \in 0..MaxTotalTasks : DivideCall(TaskList(n))
    \/ \E b \in 1..Len(bots) : Collect(b)
    \/ Return
    \/ \E b \in 1..Len(bots) : BotStart(b)
    \/ \E b \in 1..Len(bots) : BotSetCurrent(b)
    \/ \E b \in 1..Len(bots) : \E ok \in BOOLEAN : BotAttempt(b, ok)
    \/ \E b \in 1..Len(bots) : BotSleep(b)
    \/ \E b \in 1..Len(bots) : BotSucceeded(b)
    \/ \E b \in 1..Len(bots) : BotFailed(b)
    \/ \E b \in 1..Len(bots) : BotAppend(b)
    \/ \E b \in 1..Len(bots) : BotFinish(b)
    \/ \E b \in 1..Len(bots) : BotReturn(b)

Spec == Init /\ [][Next]_vars

SpecFault == InitFault /\ [][Next]_vars

\* a step of a thread inside execute: a worker thread of the pool, or the
\* caller's thread in the as_completed loop
Running ==
    \/ \E b \in 1..Len(bots) :
          \/ BotStart(b)
          \/ BotSetCurrent(b)
          \/ \E ok \in BOOLEAN : BotAttempt(b, ok)
          \/ BotSleep(b)
          \/ BotSucceeded(b)
          \/ BotFailed(b)
          \/ BotAppend(b)
          \/ BotFinish(b)
          \/ BotReturn(b)
          \/ Collect(b)
    \/ Return

\* SpecLive: Spec, where a thread that can take a step eventually takes one
\* (the pool has one thread per bot, a processor invocation and a delay end)
SpecLive == Spec /\ WF_vars(Running)

\* SpecExample: the scenario of test_execute_with_failures with four bots: one
\* execute call of tasks 1..10 on a fresh manager with max_retries = 1 and a
\* processor that raises exactly for the multiples of five
ExampleFails(task) == task % 5 = 0

InitExample ==
    /\ mgr_pc = "new"
    /\ num_bots = 4
    /\ max_retries = 1
    /\ retry_delay = 0
    /\ bots = <<>>
    /\ all_results = <<>>
    /\ tasks = <<>>
    /\ batches = None
    /\ batches_in = <<>>
    /\ report = None
    /\ submitted = 0
    /\ created = 0
    /\ proc_calls = <<>>
    /\ sleeps = <<>>
    /\ resolved = <<>>
    /\ ConfigIdle
    /\ ConductorIdle
    /\ LockIdle
    /\ AuxIdle
    /\ MonitorIdle
    /\ WorkerIdle

\* (with max_retries = 1 no attempt is followed by a delay: BotSleep is never
\* enabled and is left out of NextExample)
ExampleExecute ==
    /\ mgr_pc = "ready"
    /\ ExecuteCall(TaskList(10))

NextExample ==
    \/ Construct
    \/ ExampleExecute
    \/ \E b \in 1..Len(bots) : Collect(b)
    \/ Return
    \/ \E b \in 1..Len(bots) : BotStart(b)
    \/ \E b \in 1..Len(bots) : BotSetCurrent(b)
    \/ \E b \in 1..Len(bots) :
          bots[b].pc = "attempt" /\ BotAttempt(b, ~ExampleFails(CurTask(bots[b])))
    \/ \E b \in 1..Len(bots) : BotSucceeded(b)
    \/ \E b \in 1..Len(bots) : BotFailed(b)
    \/ \E b \in 1..Len(bots) : BotAppend(b)
    \/ \E b \in 1..Len(bots) : BotFinish(b)
    \/ \E b \in 1..Len(bots) : BotReturn(b)

SpecExample == InitExample /\ [][NextExample]_vars

\* SpecConfig: a BotConfiguration is constructed from arbitrary values
InitConfig ==
    /\ mgr_pc = "new"
    /\ num_bots = 1
    /\ max_retries = 1
    /\ retry_delay = 0
    /\ bots = <<>>
    /\ all_results = <<>>
    /\ tasks = <<>>
    /\ batches = None
    /\ batches_in = <<>>
    /\ report = None
    /\ submitted = 0
    /\ created = 0
    /\ proc_calls = <<>>
    /\ sleeps = <<>>
    /\ resolved = <<>>
    /\ cfg_pc = "new"
    /\ cfg_args \in [vals : [ConfigKeys -> -1..1], present : SUBSET ConfigKeys,
                     extra : BOOLEAN]
    /\ cfg = None
    /\ ConductorIdle
    /\ LockIdle
    /\ AuxIdle
    /\ MonitorIdle
    /\ WorkerIdle

NextConfig ==
    \/ ConfigDirect
    \/ ConfigFromDict
    \/ ConfigFromFile

SpecConfig == InitConfig /\ [][NextConfig]_vars

\* SpecReliable: Spec with a processor that never raises.  No worker sleeps
\* before a retry, so BotSleep is left out; a task still fails when
\* max_retries allows no attempt at all.
NextReliable ==
    \/ Construct
    \/ \E n \in 0..MaxTotalTasks : Execute(TaskList(n))
    \/ \E b \in 1..Len(bots) : Collect(b)
    \/ Return
    \/ \E b \in 1..Len(bots) : BotStart(b)
    \/ \E b \in 1..Len(bots) : BotSetCurrent(b)
    \/ \E b \in 1..Len(bots) : BotAttempt(b, TRUE)
    \/ \E b \in 1..Len(bots) : BotSucceeded(b)
    \/ \E b \in 1..Len(bots) : BotFailed(b)
    \/ \E b \in 1..Len(bots) : BotAppend(b)
    \/ \E b \in 1..Len(bots) : BotFinish(b)
    \/ \E b \in 1..Len(bots) : BotReturn(b)

SpecReliable == Init /\ [][NextReliable]_vars

\* SpecLock: Spec with the as_completed loop taken statement by statement
\* a step of the caller's thread inside the loop
LoopStep ==
    \/ \E b \in 1..Len(bots) : FutureResult(b)
    \/ AcquireLock
    \/ ExtendResults
    \/ ReleaseLock

\* a step of a worker thread
WorkerStep ==
    \E b \in 1..Len(bots) :
        \/ BotStart(b)
        \/ BotSetCurrent(b)
        \/ \E ok \in BOOLEAN : BotAttempt(b, ok)
        \/ BotSleep(b)
        \/ BotSucceeded(b)
        \/ BotFailed(b)
        \/ BotAppend(b)
        \/ BotFinish(b)
        \/ BotReturn(b)

NextLock ==
    \/ Construct
    \/ \E n \in 0..MaxTotalTasks : Execute(TaskList(n))
    \/ \E b \in 1..Len(bots) : FutureResult(b)
    \/ AcquireLock
    \/ ExtendResults
    \/ ReleaseLock
    \/ Return
    \/ \E b \in 1..Len(bots) : BotStart(b)
    \/ \E b \in 1..Len(bots) : BotSetCurrent(b)
    \/ \E b \in 1..Len(bots) : \E ok \in BOOLEAN : BotAttempt(b, ok)
    \/ \E b \in 1..Len(bots) : BotSleep(b)
    \/ \E b \in 1..Len(bots) : BotSucceeded(b)
    \/ \E b \in 1..Len(bots) : BotFailed(b)
    \/ \E b \in 1..Len(bots) : BotAppend(b)
    \/ \E b \in 1..Len(bots) : BotFinish(b)
    \/ \E b \in 1..Len(bots) : BotReturn(b)

SpecLock == Init /\ [][NextLock]_vars

\* SpecConductor: a BotConductor extracts data for PRI lists
InitConductor ==
    /\ ManagerIdle
    /\ ConfigIdle
    /\ \E workers \in 1..MaxWorkers, size \in 1..MaxBatchSize, c \in BOOLEAN :
          ConductorAt(workers, size, c)
    /\ PhoenixIdle

NextConductor ==
    \/ \E n \in 0..MaxPris : DividePrisCall(TaskList(n))
    \/ \E n \in 0..MaxPris : ExtractData(TaskList(n))
    \/ \E j \in 1..Len(jobs) : JobStart(j)
    \/ \E j \in 1..Len(jobs) : \E resp \in Requests(creds_ok) : JobAuthenticate(j, resp)
    \/ \E j \in 1..Len(jobs) :
          \E outs \in [1..Len(jobs[j].batch) -> QueryOutcomes] : JobExtract(j, outs)
    \/ \E j \in 1..Len(jobs) : JobExtractRaises(j)
    \/ \E j \in 1..Len(jobs) : JobCleanup(j)
    \/ \E j \in 1..Len(jobs) : JobCollect(j)
    \/ ExtractReturn

SpecConductor == InitConductor /\ [][NextConductor]_vars

\* SpecPhoenix: a PhoenixBot is authenticated and asked for data directly
InitPhoenix ==
    /\ ManagerIdle
    /\ ConfigIdle
    /\ \E c \in BOOLEAN : ConductorAt(1, 1, c)
    /\ PhoenixIdle

NextPhoenix ==
    \/ \E resp \in Requests(creds_ok) : SoloAuthenticate(resp)
    \/ \E n \in 0..MaxPris : \E outs \in [1..n -> QueryOutcomes] :
          SoloExtract(TaskList(n), outs)

SpecPhoenix == InitPhoenix /\ [][NextPhoenix]_vars

\* ===== properties ==========================================================
BotIds == 1..Len(bots)

\* execute has returned and `report` is its return value
Returned == mgr_pc = "returned"

\* the bot holds a TaskResult (or the value it will carry) not yet appended
HasPending(bot) == bot.pc \in {"succeeded", "append"}

\* every TaskResult a bot has produced so far
Outcomes(bot) == IF HasPending(bot) THEN Append(bot.results, bot.pending) ELSE bot.results

\* the bot has left the for loop of process_tasks
LoopLeft(bot) == bot.pc \in {"finish", "return", "done"}

Count(s, Test(_)) == Len(SelectSeq(s, Test))

\* the workers of the current/last call (an empty call constructs none)
CallBots == IF created = 0 THEN {} ELSE BotIds

\* C1: when execute(tasks) with N >= 1 tasks returns, the report's result list
\* holds exactly one TaskResult per submitted task and total_tasks = N.
C1_OneResultPerTask ==
    (Returned /\ Len(tasks) >= 1) =>
        /\ report.total_tasks = Len(tasks)
        /\ \A t \in 1..Len(tasks) :
             Cardinality({i \in 1..Len(report.results) : report.results[i].task = t}) = 1

\* C2: _divide_tasks returns num_bots contiguous slices in original order whose
\* concatenation is the input; the first N mod W slices have N div W + 1 tasks,
\* the others N div W.
SliceLen(N, W, i) == (N \div W) + (IF i <= N % W THEN 1 ELSE 0)
SliceStart(N, W, i) == (i - 1) * (N \div W) + Min(i - 1, N % W)

C2_DivideTasks ==
    batches # None =>
        LET N == Len(batches_in)
            W == num_bots
        IN /\ Len(batches) = W
           /\ Concat(batches) = batches_in
           /\ \A i \in 1..W :
                /\ Len(batches[i]) = SliceLen(N, W, i)
                /\ batches[i] = SubSeq(batches_in, SliceStart(N, W, i) + 1,
                                       SliceStart(N, W, i) + SliceLen(N, W, i))

C2_Witness ==
    /\ num_bots = 2
    /\ batches_in = <<1, 2, 3>>
    /\ batches = << <<1, 2>>, <<3>> >>

\* C3: with max_retries >= 1, a task whose every attempt failed was attempted
\* exactly max_retries times with exactly max_retries - 1 delays, a delay never
\* follows the final attempt, and the task is resolved as one failed TaskResult.
C3_RetryCount ==
    max_retries >= 1 =>
        /\ \A t \in 1..Len(proc_calls) :
             /\ sleeps[t] <= proc_calls[t]
             /\ sleeps[t] <= max_retries - 1
             /\ proc_calls[t] <= max_retries
        /\ \A b \in BotIds : \A j \in 1..Len(Outcomes(bots[b])) :
             LET r == Outcomes(bots[b])[j]
             IN ~r.success =>
                  /\ proc_calls[r.task] = max_retries
                  /\ sleeps[r.task] = max_retries - 1
                  /\ resolved[r.task] = 1
                  /\ Count(Outcomes(bots[b]), LAMBDA x : x.task = r.task) = 1

C3_Witness ==
    /\ max_retries = 2
    /\ \E b \in BotIds :
         /\ bots[b].pc = "done"
         /\ \E j \in 1..Len(bots[b].results) : ~bots[b].results[j].success

\* C4: with max_retries = 0 every resolved task was attempted exactly once.
C4_ZeroRetriesOneAttempt ==
    max_retries = 0 =>
        \A t \in 1..Len(resolved) : resolved[t] >= 1 => proc_calls[t] = 1

\* C5: a task that succeeds on attempt k was attempted exactly k times (k - 1
\* failures, k - 1 delays, k <= max_retries), is never attempted again, has one
\* successful TaskResult carrying the value of attempt k, and counts once as
\* completed and not as failed.
C5_SuccessOnAttemptK ==
    \A b \in BotIds :
        LET bot == bots[b]
            out == Outcomes(bot)
        IN /\ \A j \in 1..Len(out) :
                out[j].success =>
                   LET t == out[j].task
                       k == proc_calls[t]
                   IN /\ 1 <= k /\ k <= max_retries
                      /\ out[j].result = ProcValue(t, k)
                      /\ sleeps[t] = k - 1
                      /\ resolved[t] = (IF bot.pc = "succeeded" /\ j = Len(out) THEN 0 ELSE 1)
                      /\ Count(out, LAMBDA x : x.task = t) = 1
           /\ bot.progress.tasks_completed =
                Count(IF bot.pc = "succeeded" THEN bot.results ELSE out, IsSuccess)
           /\ bot.progress.tasks_failed = Count(out, IsFailure)

C5_Witness ==
    \E b \in BotIds :
        /\ bots[b].pc = "done"
        /\ \E j \in 1..Len(bots[b].results) :
             /\ bots[b].results[j].success
             /\ bots[b].results[j].result = ProcValue(bots[b].results[j].task, 2)

\* C6: a Completed worker has completed + failed = size of its slice, and when
\* execute returns the counts of the call's workers add up to the number of
\* submitted tasks.
Accounted(bot) == bot.progress.tasks_completed + bot.progress.tasks_failed

StateRank(st) == CASE st = "idle" -> 0 [] st = "active" -> 1 [] st = "completed" -> 2
                   [] OTHER -> 3

C8_StateOfPc(bot) ==
    /\ bot.progress.state \in {"idle", "active", "completed"}
    /\ bot.progress.state = "idle" <=> bot.pc \in {"new", "queued"}
    /\ bot.progress.state = "completed" <=> bot.pc \in {"return", "done"}
    /\ bot.progress.state = "completed" =>
         Len(bot.results) = Len(bot.batch) /\ Len(bot.batch) >= 1

C8_StateTransitions ==
    /\ [](\A b \in BotIds : C8_StateOfPc(bots[b]))
    /\ [][~(mgr_pc # "collecting" /\ mgr_pc' = "collecting") =>
            \A b \in BotIds :
               LET old == StateRank(bots[b].progress.state)
                   new == StateRank(bots'[b].progress.state)
               IN old <= new /\ new <= old + 1]_vars

C8_Witness ==
    \E b \in BotIds :
        /\ bots[b].progress.state = "completed"
        /\ Len(bots[b].results) = 2
        /\ bots[b].results[1].success
        /\ ~bots[b].results[2].success

\* C9: execute([]) returns total_tasks = 0, successful = 0, failed = 0 and
\* success_rate = 0 without constructing or spawning a worker.
C9_EmptyExecute ==
    (Returned /\ tasks = <<>>) =>
        /\ report.total_tasks = 0
        /\ report.successful = 0
        /\ report.failed = 0
        /\ report.success_rate.num = 0
        /\ report.results = <<>>
        /\ created = 0
        /\ \A b \in BotIds : bots[b].pc \in {"new", "done", "faulted"}

C9_Witness ==
    /\ Returned
    /\ tasks = <<>>
    /\ submitted = 0
    /\ report.total_tasks = 0

\* C10: constructing the BotManager with num_bots <= 0 fails with a
\* configuration error, and then no worker exists and no task is processed.
C10_InvalidNumBots ==
    /\ (num_bots <= 0 /\ mgr_pc # "new") => mgr_pc = "config_error"
    /\ mgr_pc = "config_error" =>
         /\ num_bots <= 0
         /\ bots = <<>>
         /\ all_results = <<>>
         /\ submitted = 0

C10_Witness ==
    /\ mgr_pc = "config_error"
    /\ num_bots = 0

\* C11: constructing the BotManager (and with it its workers) with a negative
\* retry count or a negative retry delay fails with a configuration error, so
\* no such manager is ever ready and no task is processed under it.
C11_NegativeRetryRejected ==
    (max_retries < 0 \/ retry_delay < 0) => mgr_pc \in {"new", "config_error"}

\* C12: a BotConfiguration that was constructed (directly, from a dict or from
\* a file) has num_bots > 0, max_retries >= 0, retry_delay >= 0 and
\* monitor_interval > 0; a value outside these bounds makes the construction
\* raise, and the object holds the given values unchanged (nothing is clamped).
C12_ConfigValidated ==
    LET given(k) == IF k \in cfg_args.present THEN cfg_args.vals[k] ELSE ConfigDefaults[k]
        inBounds == /\ given("num_bots") > 0
                    /\ given("max_retries") >= 0
                    /\ given("retry_delay") >= 0
                    /\ given("monitor_interval") > 0
    IN /\ cfg_pc = "ok" =>
            /\ cfg.num_bots > 0
            /\ cfg.max_retries >= 0
            /\ cfg.retry_delay >= 0
            /\ cfg.monitor_interval > 0
            /\ \A k \in ConfigKeys : cfg[k] = given(k)
       /\ (cfg_pc # "new" /\ ~inBounds) => cfg_pc = "error"

C12_Witness ==
    /\ cfg_pc = "error"
    /\ cfg_args.present = ConfigKeys
    /\ cfg_args.vals = [num_bots |-> 1, max_retries |-> 0, retry_delay |-> -1,
                        monitor_interval |-> 1]

\* the workers execute has submitted to the pool
Spawned == {b \in CallBots : bots[b].pc # "new"}

C15_FaultKeepsPartialResults ==
    Returned =>
        \A b \in CallBots :
            bots[b].pc = "faulted" =>
                \A i \in 1..Len(bots[b].results) :
                    \E j \in 1..Len(report.results) :
                        report.results[j] = bots[b].results[i]

\* C16: in every report execute returns, successful + failed = total_tasks =
\* the length of the result list, failed_tasks has exactly one entry
\* {task, error, bot_id} per TaskResult with success = false (in order), and
\* success_rate is successful / total_tasks * 100, or 0 when total_tasks = 0.
FailedIdx(results) == {i \in 1..Len(results) : ~results[i].success}

\* the k-th smallest index of a failed result
KthFailed(results, k) ==
    CHOOSE i \in FailedIdx(results) :
        Cardinality({j \in FailedIdx(results) : j <= i}) = k

C16_ReportInvariants ==
    Returned =>
        LET rs == report.results
        IN /\ report.total_tasks = Len(rs)
           /\ report.successful = Cardinality({i \in 1..Len(rs) : rs[i].success})
           /\ report.failed = Cardinality(FailedIdx(rs))
           /\ report.successful + report.failed = report.total_tasks
           /\ Len(report.failed_tasks) = Cardinality(FailedIdx(rs))
           /\ \A k \in 1..Len(report.failed_tasks) :
                 LET r == rs[KthFailed(rs, k)]
                 IN report.failed_tasks[k] =
                        [task |-> r.task, error |-> r.error, bot_id |-> r.bot_id]
           /\ report.success_rate.den > 0
           /\ IF report.total_tasks > 0
              THEN report.success_rate.num * report.total_tasks =
                       report.successful * 100 * report.success_rate.den
              ELSE report.success_rate.num = 0

C16_Witness ==
    /\ Returned
    /\ report.total_tasks = 3
    /\ report.successful = 2
    /\ report.failed = 1
    /\ Len(report.failed_tasks) = 1

\* C17: the progress snapshots attached to a report are those of exactly the
\* workers spawned for that execute call: a worker whose slice is empty
\* contributes no entry.
C17_ProgressOnlyOfSpawned ==
    Returned =>
        /\ Len(report.bot_progress) = Cardinality(Spawned)
        /\ \A i \in 1..Len(report.bot_progress) :
             \E b \in Spawned : report.bot_progress[i].bot_id = bots[b].bot_id

\* C18: the workers execute spawns are exactly those with a non-empty slice, so
\* min(N, W) workers are spawned, and never more than W workers are running.
C18_SpawnedNonEmptySlices ==
    created > 0 =>
        LET N == Len(tasks)
            W == num_bots
        IN /\ Len(bots) = W
           /\ \A b \in BotIds :
                /\ (bots[b].pc # "new") <=> (SliceLen(N, W, b) > 0)
                /\ bots[b].pc # "new" => Len(bots[b].batch) = SliceLen(N, W, b)
           /\ Cardinality(Spawned) = Min(N, W)
           /\ Cardinality({b \in BotIds : IsRunning(bots[b])}) <= W

C18_Witness ==
    /\ mgr_pc = "collecting"
    /\ num_bots = 2
    /\ Len(tasks) = 1
    /\ Spawned = {1}
    /\ IsRunning(bots[1])

\* C19: a worker processes its slice sequentially and in order: a task is first
\* attempted only after every earlier task of the slice is resolved, and the
\* worker's results list the tasks in the order of the slice.
C19_SequentialInOrder ==
    \A b \in CallBots :
        LET bot == bots[b]
        IN /\ \A j \in 1..Len(bot.batch) :
                (proc_calls[bot.batch[j]] > 0 \/ resolved[bot.batch[j]] > 0) =>
                    \A i \in 1..(j - 1) :
                        /\ resolved[bot.batch[i]] = 1
                        /\ i <= Len(Outcomes(bot))
           /\ \A i \in 1..Len(Outcomes(bot)) : Outcomes(bot)[i].task = bot.batch[i]
           /\ bot.pc = "done" =>
                [i \in 1..Len(bot.results) |-> bot.results[i].task] = bot.batch

C19_Witness ==
    \E b \in CallBots :
        /\ bots[b].pc = "done"
        /\ Len(bots[b].batch) = 2
        /\ ~bots[b].results[1].success
        /\ bots[b].results[2].success

\* C20: a snapshot get_progress returns at any moment is consistent: Idle has
\* zero counts and no start timestamp; Active has a start and no end
\* timestamp; Completed has an end timestamp, no current task and
\* completed + failed equal to the size of the slice.
C20_SnapshotConsistent ==
    \A b \in BotIds :
        LET s == GetProgress(bots[b])
        IN /\ s.state \in {"idle", "active", "completed"}
           /\ s.state = "idle" =>
                /\ s.tasks_completed = 0
                /\ s.tasks_failed = 0
                /\ s.start_time = "None"
           /\ s.state = "active" =>
                /\ s.start_time = "set"
                /\ s.end_time = "None"
           /\ s.state = "completed" =>
                /\ s.end_time = "set"
                /\ s.current_task = NoTask
                /\ s.tasks_completed + s.tasks_failed = Len(bots[b].batch)

C20_Witness ==
    /\ mgr_pc = "collecting"
    /\ Len(bots) = 2
    /\ GetProgress(bots[1]).state = "completed"
    /\ GetProgress(bots[1]).tasks_failed = 1
    /\ GetProgress(bots[2]).state = "active"
    /\ GetProgress(bots[2]).current_task # NoTask

\* C21: a TaskResult has a result value exactly when it is successful and an
\* error description exactly when it is failed.
C21_ResultIffSuccess ==
    \A b \in CallBots : \A i \in 1..Len(Outcomes(bots[b])) :
        LET r == Outcomes(bots[b])[i]
        IN IF r.success
           THEN r.result # None /\ r.error = None
           ELSE r.error # None /\ r.result = None

\* C22: tasks 1..10, 4 workers, max_retries = 1, a processor failing exactly
\* for task % 5 = 0: the slices have sizes 3, 3, 2, 2, the processor is invoked
\* once per task, exactly tasks 5 and 10 are reported failed, and the report
\* has total 10, successful 8, failed 2 and success_rate 80.
C22_ExampleScenario ==
    /\ created > 0 =>
          /\ [i \in 1..Len(batches) |-> Len(batches[i])] = <<3, 3, 2, 2>>
          /\ \A t \in 1..Len(proc_calls) : proc_calls[t] <= 1
    /\ Returned =>
          /\ \A t \in 1..10 : proc_calls[t] = 1
          /\ {report.failed_tasks[i].task : i \in 1..Len(report.failed_tasks)} = {5, 10}
          /\ {report.results[i].task : i \in {j \in 1..Len(report.results) :
                                                 ~report.results[j].success}} = {5, 10}
          /\ report.total_tasks = 10
          /\ report.successful = 8
          /\ report.failed = 2
          /\ report.success_rate.num = 80 * report.success_rate.den

C22_Witness ==
    /\ Returned
    /\ Len(tasks) = 10
    /\ report.total_tasks = 10
    /\ report.failed = 2

\* ----- BotConductor, PhoenixBot and AuthManager properties -----------------------
CountOp(log, op) == Cardinality({i \in 1..Len(log) : log[i].op = op})

JobIds == 1..Len(jobs)

\* C23: divide_pris with batch size B >= 1 returns [] for an empty list and,
\* for a list of length L >= 1, ceil(L/B) consecutive chunks whose
\* concatenation is the list in order; every chunk but the last holds exactly
\* B PRIs and the last holds between 1 and B.
C23_DividePris ==
    LET L == Len(pri_divided)
        B == batch_size
        n == Len(pri_batches)
    IN /\ L = 0 => pri_batches = <<>>
       /\ L >= 1 =>
            /\ n = (L + B - 1) \div B
            /\ Concat(pri_batches) = pri_divided
            /\ \A i \in 1..(n - 1) : Len(pri_batches[i]) = B
            /\ Len(pri_batches[n]) \in 1..B

C23_Witness ==
    /\ batch_size = 2
    /\ Len(pri_divided) = 3
    /\ Len(pri_batches) = 2
    /\ Len(pri_batches[2]) = 1

\* the authentication of the job's bot has been tried and has failed
AuthTriedAndFailed(job) ==
    /\ CountOp(job.bot.log, "authenticate") > 0
    /\ job.bot.cookie = NoCookie

\* C24: when the authentication of a chunk's bot fails, _process_batch returns
\* no results and the whole chunk as failed, and neither extract_batch_data
\* nor a query is invoked for the chunk.
C24_AuthFailureFailsChunk ==
    \A j \in JobIds :
        AuthTriedAndFailed(jobs[j]) =>
            /\ jobs[j].pc \in {"cleanup", "done"}
            /\ jobs[j].ret = BatchReturn(<<>>, jobs[j].batch)
            /\ CountOp(jobs[j].bot.log, "extract") = 0
            /\ CountOp(jobs[j].bot.log, "query") = 0

C24_Witness ==
    \E j \in JobIds :
        /\ AuthTriedAndFailed(jobs[j])
        /\ jobs[j].pc = "done"
        /\ Len(jobs[j].batch) = 2
        /\ jobs[j].collected
        /\ cnd_failed = jobs[j].batch

\* C25: on the bot of every chunk, authenticate is called exactly once and
\* first, cleanup exactly once and last, whatever the outcome of the chunk
\* (data extracted, authentication failed, extraction raised).
C25_BotLifecycle ==
    \A j \in JobIds :
        LET log == jobs[j].bot.log
        IN /\ CountOp(log, "authenticate") <= 1
           /\ CountOp(log, "cleanup") <= 1
           /\ log # <<>> => log[1].op = "authenticate"
           /\ \A i \in 1..Len(log) : log[i].op = "cleanup" => i = Len(log)
           /\ jobs[j].pc \in {"queued", "authenticate"} => log = <<>>
           /\ jobs[j].pc = "done" =>
                /\ CountOp(log, "authenticate") = 1
                /\ log[Len(log)].op = "cleanup"

\* the three outcomes of a chunk
Extracted(job) == CountOp(job.bot.log, "query") > 0
ExtractionRaised(job) ==
    CountOp(job.bot.log, "extract") = 1 /\ CountOp(job.bot.log, "query") = 0

C25_Witness ==
    /\ Len(jobs) = 3
    /\ \A j \in JobIds : jobs[j].pc = "done"
    /\ Extracted(jobs[1])
    /\ AuthTriedAndFailed(jobs[2])
    /\ ExtractionRaised(jobs[3])

\* C26: extract_data with an empty PRI list returns status 'error' with the
\* message 'No PRIs to process' and empty results; no bot is created and no
\* authentication is attempted.
C26_EmptyExtractData ==
    (cnd_pc = "returned" /\ pri_list = <<>>) =>
        /\ summary.status = "error"
        /\ summary.message = "No PRIs to process"
        /\ summary.results = <<>>
        /\ jobs = <<>>

C26_Witness == cnd_pc = "returned" /\ pri_list = <<>> /\ summary.status = "error"

\* C27: get_cookie returns no cookie when the request fails with a
\* RequestException, a timeout, a non-200 status or without a username and a
\* password; a cookie is returned only after a 200 response.
C27_CookieOnlyAfter200 ==
    /\ solo_resp \in {"request_error", "timeout", "rejected", "error"} =>
          solo.cookie = NoCookie
    /\ ~creds_ok => solo.cookie = NoCookie
    /\ solo.cookie # NoCookie => solo_resp \in {"cookies", "no_cookies"}

\* C28: extract_batch_data on a bot that has not authenticated returns no
\* results and the whole batch as failed and issues no query; the
\* authenticated flag becomes true only in an authenticate call that obtained
\* a cookie.
C28_Unauthenticated ==
    ~solo.authenticated =>
        /\ CountOp(solo.log, "query") = 0
        /\ CountOp(solo.log, "extract") > 0 => solo_ret = BatchReturn(<<>>, solo_batch)

C28_FlagSet ==
    solo'.authenticated /\ ~solo.authenticated =>
        /\ solo'.cookie # NoCookie
        /\ solo'.log = Append(solo.log, Event("authenticate", 0))

C28_NotAuthenticated == [](C28_Unauthenticated) /\ [][C28_FlagSet]_vars

C28_Witness ==
    /\ ~solo.authenticated
    /\ CountOp(solo.log, "authenticate") > 0
    /\ CountOp(solo.log, "extract") > 0
    /\ Len(solo_batch) = 2
    /\ solo_ret.failed = solo_batch

\* ----- logical time ------------------------------------------------------------
\* The time worker b spends in process_tasks when an invocation of the
\* processor takes D and a retry sleep takes retry_delay, everything else
\* taking no time.
WorkTime(b, D) ==
    SumSeq([i \in 1..Len(bots[b].batch) |->
               D * proc_calls[bots[b].batch[i]] + retry_delay * sleeps[bots[b].batch[i]]])

MaxOf(f) == CHOOSE x \in {f[i] : i \in DOMAIN f} : \A i \in DOMAIN f : f[i] <= x

\* The busy time of each of the pool's k threads once the first i submitted
\* calls have run: the pool takes the calls in the order of their submission,
\* each on the thread that is free first.
RECURSIVE ThreadLoads(_, _, _)
ThreadLoads(i, k, D) ==
    IF i = 0 THEN [t \in 1..k |-> 0]
    ELSE LET prev == ThreadLoads(i - 1, k, D)
             free == CHOOSE t \in 1..k : \A u \in 1..k : prev[t] <= prev[u]
         IN [prev EXCEPT ![free] = @ + WorkTime(i, D)]

\* the time from the submission of the workers to the end of the last of them
Makespan(D) == MaxOf(ThreadLoads(Len(bots), PoolSize(num_bots), D))

\* no invocation of the processor raised in the call
NeverRaised ==
    /\ \A t \in 1..Len(tasks) : proc_calls[t] <= 1 /\ sleeps[t] = 0
    /\ \A b \in CallBots : \A i \in 1..Len(bots[b].results) :
         bots[b].results[i].success \/ bots[b].results[i].error = None

\* the processor ran once for every task of the call and returned
EachTaskOnce ==
    /\ \A t \in 1..Len(tasks) : proc_calls[t] = 1
    /\ \A b \in CallBots : \A i \in 1..Len(bots[b].results) : bots[b].results[i].success

\* C29: when the processor takes D per task and never fails, the workers
\* overlap: in logical time execute takes at most ceil(N/W) * D, exactly the
\* largest slice times D when every task was processed, which for W >= 2 and
\* N >= 2 is less than N * D.
C29_Makespan ==
    (Returned /\ Len(tasks) >= 1 /\ NeverRaised) =>
        \A D \in 1..MaxDuration :
            LET N == Len(tasks)
                W == num_bots
                largest == MaxOf([i \in 1..W |-> Len(bots[i].batch)])
            IN /\ largest = (N + W - 1) \div W
               /\ Makespan(D) <= largest * D
               /\ EachTaskOnce => Makespan(D) = largest * D
               /\ (EachTaskOnce /\ W >= 2 /\ N >= 2) => Makespan(D) < N * D

C29_Witness ==
    /\ Returned
    /\ num_bots = 2
    /\ Len(tasks) = 3
    /\ EachTaskOnce
    /\ Makespan(MaxDuration) = 2 * MaxDuration

\* ----- the result lock -----------------------------------------------------------
\* the caller's thread is inside the with block of line 320
InCriticalSection == loop_pc \in {"extend", "release"}

\* C30: self._lock is held only while all_results is extended: the caller's
\* thread holds it exactly inside the with block, where its only steps are
\* the extension and the release, neither of which waits for a worker; no
\* worker step needs the lock; the lock is free whenever the loop waits for
\* a future and when execute returns; and inside execute some thread can
\* always take a step.
C30_LockState ==
    /\ lock = "held" <=> InCriticalSection
    /\ lock = "held" => ENABLED (ExtendResults \/ ReleaseLock)
    /\ loop_pc = "acquire" => ENABLED AcquireLock
    /\ Returned => lock = "free"
    /\ mgr_pc = "collecting" => ENABLED (LoopStep \/ Return \/ WorkerStep)

C30_LockStep ==
    /\ (lock = "held" /\ all_results' # all_results) => (ExtendResults /\ lock' = "held")
    /\ (lock = "held" /\ lock' = "held") =>
          \/ ExtendResults
          \/ WorkerStep
    /\ (lock = "held" /\ loop_pc = "release" /\ loop_pc' # "release") => lock' = "free"

C30_ResultLock == [](C30_LockState) /\ [][C30_LockStep]_vars

C30_Witness ==
    /\ lock = "held"
    /\ loop_pc = "release"
    /\ Len(all_results) = 2
    /\ \E b \in CallBots : b # cur /\ bots[b].pc = "attempt"

\* ----- the worker's bookkeeping ---------------------------------------------------
\* the worker has recorded a success and has not started the next task
SucceededNotMovedOn(bot) ==
    \/ bot.pc = "append" /\ bot.pending.success
    \/ /\ bot.pc \in {"set_current", "finish"}
       /\ bot.results # <<>>
       /\ bot.results[Len(bot.results)].success

\* C31: in every snapshot taken after a task has succeeded and before the
\* next task is started, current_task is None.
C31_CurrentTaskCleared ==
    \A b \in CallBots :
        SucceededNotMovedOn(bots[b]) => GetProgress(bots[b]).current_task = NoTask

\* the index of the last failed result of a non-empty list of failed indices
LastFailed(results) ==
    CHOOSE i \in FailedIdx(results) : \A j \in FailedIdx(results) : j <= i

\* C32: the error of a failed TaskResult, and the worker's error_message
\* after it, is the message of the task's final attempt, and the failed
\* count is incremented exactly once per failed task.
C32_FinalAttemptError ==
    \A b \in CallBots :
        LET outs == Outcomes(bots[b])
        IN /\ \A i \in FailedIdx(outs) :
                /\ proc_calls[outs[i].task] >= 1
                /\ outs[i].error = ProcError(outs[i].task, proc_calls[outs[i].task])
           /\ bots[b].progress.tasks_failed = Cardinality(FailedIdx(outs))
           /\ FailedIdx(outs) # {} =>
                bots[b].progress.error_message = outs[LastFailed(outs)].error

\* ----- repeated execute calls -------------------------------------------------------
\* an earlier execute call on the same BotManager submitted tasks
EarlierCall == submitted > Len(tasks)

\* the TaskResults the workers of the current call have returned
ResultsOfCall == SumSeq([b \in 1..Len(bots) |-> IF b \in CallBots THEN Len(bots[b].results) ELSE 0])

\* C33: the report of a later execute call on the same BotManager has
\* total_tasks equal to the length of that call's task list and holds the
\* TaskResults of that call's workers only.
C33_ReportOfThisCall ==
    (Returned /\ EarlierCall) =>
        /\ report.total_tasks = Len(tasks)
        /\ Len(report.results) = ResultsOfCall

\* ----- one execute call with the order of completion recorded -----------------
\* process_tasks, line 138, with the completion of the future recorded
BotReturnLogged(b) ==
    /\ bots[b].pc = "return"
    /\ bots' = [bots EXCEPT ![b].pc = "done"]
    /\ finished' = Append(finished, b)
    /\ UNCHANGED <<mgr_pc, num_bots, max_retries, retry_delay, all_results, tasks,
                   batches, batches_in, report, submitted, created, proc_calls, sleeps,
                   resolved, entered, first_ok>>
    /\ UNCHANGED <<cfg_vars, cnd_vars, phx_vars, lck_vars, mon_vars, wrk_vars>>

\* execute, line 316: as_completed(future_to_bot) is entered after the last
\* submit; the futures that have completed by then form its set `finished`
AsCompletedEnter ==
    /\ mgr_pc = "collecting"
    /\ entered = NotEntered
    /\ entered' = Len(finished)
    /\ UNCHANGED <<mgr_vars, cfg_vars, cnd_vars, phx_vars, lck_vars, mon_vars, wrk_vars,
                   finished, first_ok>>

\* the position of bot b's future in the order of completion (0: not completed)
FinishPos(b) ==
    IF \E i \in 1..Len(finished) : finished[i] = b
    THEN CHOOSE i \in 1..Len(finished) : finished[i] = b
    ELSE 0

\* concurrent.futures.as_completed: the futures that had completed at the
\* entry are yielded first, in the iteration order of a set; the others are
\* yielded after them, in the order of their completion
Yields(b) ==
    /\ entered # NotEntered
    /\ FinishPos(b) > 0
    /\ \A c \in 1..Len(bots) :
          (FinishPos(c) > 0 /\ FinishPos(c) < FinishPos(b) /\ FinishPos(b) > entered)
              => bots[c].collected
    /\ \A c \in 1..Len(bots) :
          (FinishPos(c) > 0 /\ FinishPos(c) <= entered /\ FinishPos(b) > entered)
              => bots[c].collected

\* one iteration of the loop over as_completed
CollectYielded(b) ==
    /\ Yields(b)
    /\ Collect(b)

\* the first execute call of a manager
ExecuteOnce(ts) ==
    /\ mgr_pc = "ready"
    /\ Execute(ts)

NextOnce ==
    \/ Construct
    \/ \E n \in 0..MaxTotalTasks : ExecuteOnce(TaskList(n))
    \/ AsCompletedEnter
    \/ \E b \in 1..Len(bots) : CollectYielded(b)
    \/ Return
    \/ \E b \in 1..Len(bots) : BotStart(b)
    \/ \E b \in 1..Len(bots) : BotSetCurrent(b)
    \/ \E b \in 1..Len(bots) : \E ok \in BOOLEAN : BotAttempt(b, ok)
    \/ \E b \in 1..Len(bots) : BotSleep(b)
    \/ \E b \in 1..Len(bots) : BotSucceeded(b)
    \/ \E b \in 1..Len(bots) : BotFailed(b)
    \/ \E b \in 1..Len(bots) : BotAppend(b)
    \/ \E b \in 1..Len(bots) : BotFinish(b)
    \/ \E b \in 1..Len(bots) : BotReturnLogged(b)

SpecOnce == Init /\ [][NextOnce]_vars

\* the worker (index into bots) that produced the i-th aggregate result
Producer(i) == all_results[i].bot_id + 1

\* each worker's results form one contiguous block
BlocksContiguous ==
    \A i, k \in 1..Len(all_results) :
        (i < k /\ Producer(i) = Producer(k)) =>
            \A j \in i..k : Producer(j) = Producer(i)

\* inside a block the results are in the order of the worker's slice
BlocksInSliceOrder ==
    \A i, k \in 1..Len(all_results) :
        (i < k /\ Producer(i) = Producer(k)) =>
            all_results[i].task < all_results[k].task

\* the blocks are in the order in which the workers finished
BlocksInFinishOrder ==
    \A i, k \in 1..Len(all_results) :
        (i < k /\ Producer(i) # Producer(k)) =>
            FinishPos(Producer(i)) < FinishPos(Producer(k))

\* C34: in the aggregate result list each worker's results form one contiguous
\* block in the order of its slice, results of two workers are never
\* interleaved, and the blocks appear in the order in which the workers finished
C34_BlocksInFinishOrder ==
    /\ BlocksContiguous
    /\ BlocksInSliceOrder
    /\ BlocksInFinishOrder

\* C34: what holds of the aggregate list: contiguous blocks in slice order
C34_BlocksContiguous ==
    /\ BlocksContiguous
    /\ BlocksInSliceOrder

\* ----- one execute call with a processor that is a function of task and attempt --
\* the attempts a worker makes on a task: range(max_retries)
Attempts(retries) == IF retries > 0 THEN retries ELSE 0

\* task_processor(task), line 158, for the processor described by first_ok:
\* attempt k on task t returns iff k has reached first_ok[t], else it raises
\* faulty variant: the processor always returns
ReturnsOff(t, k) == TRUE
Returns(t, k) == k >= first_ok[t]

\* the first execute call, given such a processor; an entry of first_ok above
\* the number of attempts stands for every processor that raises throughout
ExecuteDet(ts) ==
    /\ mgr_pc = "ready"
    /\ submitted + Len(ts) <= MaxTotalTasks
    /\ ExecuteBody(ts)
    /\ first_ok' \in [1..Len(ts) -> 1..(Attempts(max_retries) + 1)]
    /\ UNCHANGED <<finished, entered>>
    /\ UNCHANGED <<cfg_vars, cnd_vars, phx_vars, lck_vars, mon_vars, wrk_vars>>

\* one invocation of that processor
DetAttempt(b) ==
    /\ bots[b].pc = "attempt"
    /\ BotAttempt(b, Returns(CurTask(bots[b]), bots[b].attempt + 1))

NextDet ==
    \/ Construct
    \/ \E n \in 0..MaxTotalTasks : ExecuteDet(TaskList(n))
    \/ \E b \in 1..Len(bots) : Collect(b)
    \/ Return
    \/ \E b \in 1..Len(bots) : BotStart(b)
    \/ \E b \in 1..Len(bots) : BotSetCurrent(b)
    \/ \E b \in 1..Len(bots) : DetAttempt(b)
    \/ \E b \in 1..Len(bots) : BotSleep(b)
    \/ \E b \in 1..Len(bots) : BotSucceeded(b)
    \/ \E b \in 1..Len(bots) : BotFailed(b)
    \/ \E b \in 1..Len(bots) : BotAppend(b)
    \/ \E b \in 1..Len(bots) : BotFinish(b)
    \/ \E b \in 1..Len(bots) : BotReturn(b)

SpecDet == Init /\ [][NextDet]_vars

\* what the inputs of the call alone determine: the outcome of a task, the
\* worker whose slice holds it, and the triples of the report
ExpectedSuccess(t) == first_ok[t] <= Attempts(max_retries)

ExpectedBot(t) ==
    CHOOSE i \in 1..num_bots :
        \E j \in 1..Len(DivideTasks(tasks, num_bots)[i]) :
            DivideTasks(tasks, num_bots)[i][j] = t

ExpectedTriples ==
    {<<t, ExpectedBot(t) - 1, ExpectedSuccess(t)>> : t \in 1..Len(tasks)}

ReportTriples ==
    {<<report.results[i].task, report.results[i].bot_id, report.results[i].success>> :
        i \in 1..Len(report.results)}

\* C35: with a processor whose outcome depends only on the task and the attempt
\* number, the counts of the report and its set of (task, worker id, success)
\* triples are determined by the inputs of the call, hence the same under every
\* interleaving of the workers; each worker's results stay one block in slice order
C35_Deterministic ==
    (Returned /\ tasks # <<>>) =>
        /\ report.total_tasks = Len(tasks)
        /\ report.successful = Cardinality({t \in 1..Len(tasks) : ExpectedSuccess(t)})
        /\ report.failed = Cardinality({t \in 1..Len(tasks) : ~ExpectedSuccess(t)})
        /\ Len(report.results) = Len(tasks)
        /\ ReportTriples = ExpectedTriples
        /\ BlocksContiguous
        /\ BlocksInSliceOrder

\* two workers returned, one task succeeded at a retry and one failed
C35_Witness ==
    /\ Returned
    /\ num_bots = 2
    /\ Len(tasks) = MaxTotalTasks
    /\ \E t \in 1..Len(tasks) : ExpectedSuccess(t) /\ first_ok[t] = 2
    /\ \E t \in 1..Len(tasks) : ~ExpectedSuccess(t)
    /\ all_results[1].bot_id = 1

\* ----- the counts of a worker during its run ----------------------------------
Resolved(bot) == bot.progress.tasks_completed + bot.progress.tasks_failed

\* completed + failed is at most the slice size and is the number of appended
\* TaskResults, or one more (the result counted but not yet appended)
CountsBounded ==
    \A b \in CallBots :
        /\ Resolved(bots[b]) <= Len(bots[b].batch)
        /\ Resolved(bots[b]) \in {Len(bots[b].results), Len(bots[b].results) + 1}

\* a step never decreases a count, and a step that resolves a task (its success
\* or its final failure is recorded) increments exactly one count by one; no
\* other step changes a count
CountsStep ==
    \A b \in 1..Len(bots) :
        Len(bots') = Len(bots) =>
            LET p == bots[b].progress
                q == bots'[b].progress
            IN /\ q.tasks_completed >= p.tasks_completed
               /\ q.tasks_failed >= p.tasks_failed
               /\ IF bots[b].pc = "succeeded" /\ bots'[b].pc # "succeeded"
                  THEN /\ q.tasks_completed = p.tasks_completed + 1
                       /\ q.tasks_failed = p.tasks_failed
                  ELSE IF bots[b].pc = "failed" /\ bots'[b].pc # "failed"
                  THEN /\ q.tasks_failed = p.tasks_failed + 1
                       /\ q.tasks_completed = p.tasks_completed
                  ELSE /\ q.tasks_completed = p.tasks_completed
                       /\ q.tasks_failed = p.tasks_failed

\* C36: during a worker's run its completed and failed counts never decrease,
\* each resolved task increments exactly one of them by one, and completed +
\* failed is at most the slice size and equals the number of TaskResults
\* appended so far or that number plus one
C36_Counts == []CountsBounded /\ [][CountsStep]_vars

\* a worker has counted a success and a failure and appended only the first
C36_Witness ==
    \E b \in CallBots :
        /\ bots[b].progress.tasks_completed = 1
        /\ bots[b].progress.tasks_failed = 1
        /\ Len(bots[b].results) = 1
        /\ Len(bots[b].batch) > 2

\* ----- Bot._lock: one Bot driven directly, and a thread calling get_progress ---
\* The worker steps of the manager take each `with self._lock:` block as one
\* step.  Here the acquisition of the lock is a step of its own, so the lock is
\* held in the states between the acquisition and the end of the block.
WkUnchanged ==
    UNCHANGED <<mgr_vars, cfg_vars, cnd_vars, phx_vars, lck_vars, aux_vars, mon_vars>>

\* the positions at which the next statement is a `with self._lock:` block:
\* lines 119-121, 150-151, 161-162, 184-186 and 127-130
\* faulty variant: the processor is also called with the lock held
LockedBlocksOff == {"queued", "set_current", "attempt", "succeeded", "failed", "finish"}
LockedBlocks == {"queued", "set_current", "succeeded", "failed", "finish"}

\* the worker thread enters a `with self._lock:` block
WkAcquire ==
    /\ wk.pc \in LockedBlocks
    /\ wk_lock = "free"
    /\ wk_lock' = "worker"
    /\ UNCHANGED <<wk, obs_pc, obs_snap>>
    /\ WkUnchanged

\* the worker's next statement, which takes the bot to `next`: a locked block
\* needs the lock and releases it at its end
WkMove(next) ==
    /\ wk.pc \in LockedBlocks => wk_lock = "worker"
    /\ wk' = next
    /\ wk_lock' = IF wk.pc \in LockedBlocks THEN "free" ELSE wk_lock
    /\ UNCHANGED <<obs_pc, obs_snap>>
    /\ WkUnchanged

\* process_tasks(tasks) is called on the bot
WkCall(ts) ==
    /\ wk.pc = "new"
    /\ WkMove([wk EXCEPT !.pc = "queued", !.batch = ts])

WkStart == wk.pc = "queued" /\ WkMove(NextTask(MarkActive(wk)))

WkSetCurrent == wk.pc = "set_current" /\ WkMove(SetCurrent(wk))

\* the processor returns or raises
WkAttempt(ok) == wk.pc = "attempt" /\ WkMove(Attempted(wk, ok))

\* time.sleep returns
WkSleep == wk.pc = "sleep" /\ WkMove(Slept(wk))

WkSucceeded == wk.pc = "succeeded" /\ WkMove(Succeeded(wk))

WkFailed == wk.pc = "failed" /\ WkMove(Failed(wk))

WkAppend == wk.pc = "append" /\ WkMove(NextTask(AppendResult(wk)))

WkFinish == wk.pc = "finish" /\ WkMove(Completed(wk))

WkReturn == wk.pc = "return" /\ WkMove([wk EXCEPT !.pc = "done"])

\* another thread calls get_progress: line 198 acquires the lock
ObsCall ==
    /\ obs_pc = "idle"
    /\ obs_pc' = "want"
    /\ UNCHANGED <<wk, wk_lock, obs_snap>>
    /\ WkUnchanged

ObsAcquire ==
    /\ obs_pc = "want"
    /\ wk_lock = "free"
    /\ wk_lock' = "observer"
    /\ obs_pc' = "inside"
    /\ UNCHANGED <<wk, obs_snap>>
    /\ WkUnchanged

\* lines 199-209: the copy is built and returned, the lock released
ObsReturn ==
    /\ obs_pc = "inside"
    /\ obs_snap' = GetProgress(wk)
    /\ wk_lock' = "free"
    /\ obs_pc' = "idle"
    /\ UNCHANGED wk
    /\ WkUnchanged

\* a Bot constructed by the caller; the rest of the program is idle
InitWorker ==
    /\ ManagerNew
    /\ num_bots = 1
    /\ max_retries = 1
    /\ retry_delay = 0
    /\ LockIdle
    /\ AuxIdle
    /\ MonitorIdle
    /\ ConfigIdle
    /\ ConductorIdle
    /\ \E r \in -1..MaxRetriesBound : wk = Bot(0, r, 0)
    /\ wk_lock = "free"
    /\ obs_pc = "idle"
    /\ obs_snap = None

NextWorker ==
    \/ \E n \in 0..MaxTotalTasks : WkCall(TaskList(n))
    \/ WkAcquire
    \/ WkStart
    \/ WkSetCurrent
    \/ \E ok \in BOOLEAN : WkAttempt(ok)
    \/ WkSleep
    \/ WkSucceeded
    \/ WkFailed
    \/ WkAppend
    \/ WkFinish
    \/ WkReturn
    \/ ObsCall
    \/ ObsAcquire
    \/ ObsReturn

SpecWorker == InitWorker /\ [][NextWorker]_vars

\* the processing function is running, or the worker sleeps in a retry delay
Busy(bot) == bot.pc \in {"attempt", "sleep"}

\* C37: a worker never holds its progress lock while the processing function
\* runs or while it sleeps in a retry delay, so a get_progress call waiting for
\* the lock at such a time can acquire it at once; a worker that holds the lock
\* is inside one of the short blocks, whose next step releases it
C37_LockNotHeldWhileBusy ==
    /\ wk_lock = "worker" => ~Busy(wk)
    /\ (obs_pc = "want" /\ Busy(wk)) => ENABLED ObsAcquire
    /\ (obs_pc = "want" /\ wk_lock = "worker") =>
          /\ wk.pc \in {"queued", "set_current", "succeeded", "failed", "finish"}
          /\ ENABLED (\/ WkStart \/ WkSetCurrent \/ WkSucceeded \/ WkFailed \/ WkFinish)

\* get_progress is called while the worker sleeps before the retry of its second
\* task, and returns a snapshot while the processor runs
C37_Witness ==
    /\ obs_pc = "idle"
    /\ obs_snap # None
    /\ wk.pc = "attempt"
    /\ wk.attempt = 1
    /\ obs_snap.current_task = 2
    /\ obs_snap.tasks_completed = 1

\* ----- one extract_data call on a new conductor ---------------------------------
ExtractOnce(pris) ==
    /\ cnd_pc = "idle"
    /\ ExtractData(pris)

NextPool ==
    \/ \E n \in 0..MaxPris : ExtractOnce(TaskList(n))
    \/ \E j \in 1..Len(jobs) : JobStart(j)
    \/ \E j \in 1..Len(jobs) : \E resp \in Requests(creds_ok) : JobAuthenticate(j, resp)
    \/ \E j \in 1..Len(jobs) :
          \E outs \in [1..Len(jobs[j].batch) -> QueryOutcomes] : JobExtract(j, outs)
    \/ \E j \in 1..Len(jobs) : JobExtractRaises(j)
    \/ \E j \in 1..Len(jobs) : JobCleanup(j)
    \/ \E j \in 1..Len(jobs) : JobCollect(j)
    \/ ExtractReturn

SpecPool == InitConductor /\ [][NextPool]_vars

\* ----- the accounting of extract_data ------------------------------------------
\* how often a PRI is reported, as a result or as a failed PRI
Reported(p) ==
    Cardinality({i \in 1..Len(summary.results) : summary.results[i].pri = p})
    + Cardinality({i \in 1..Len(summary.failed_pris) : summary.failed_pris[i] = p})

InProcess == {j \in JobIds : JobRunning(jobs[j])}

\* C39: in extract_data at most max_workers chunks are being processed at any
\* moment, also when there are more chunks than max_workers; the other chunks
\* wait, and each chunk is processed exactly once: one call per chunk of
\* divide_pris, with no authentication before it has started and one after,
\* one extraction at most, and no cleanup before it is done and one after
C39_AtMostMaxWorkers ==
    /\ Cardinality(InProcess) <= max_workers
    /\ cnd_pc \in {"collecting", "returned"} =>
          /\ Len(jobs) = Len(pri_batches)
          /\ \A j \in JobIds :
                /\ jobs[j].batch = pri_batches[j]
                /\ jobs[j].bot.batch_id = j - 1
                /\ CountOp(jobs[j].bot.log, "authenticate") =
                      (IF jobs[j].pc \in {"queued", "authenticate"} THEN 0 ELSE 1)
                /\ CountOp(jobs[j].bot.log, "extract") <= 1
                /\ CountOp(jobs[j].bot.log, "cleanup") =
                      (IF jobs[j].pc = "done" THEN 1 ELSE 0)
    /\ cnd_pc = "returned" => \A j \in JobIds : jobs[j].pc = "done"

\* more chunks than threads: the pool is full and a chunk waits
C39_Witness ==
    /\ max_workers = 2
    /\ Len(jobs) > max_workers
    /\ Cardinality(InProcess) = max_workers
    /\ \E j \in JobIds : jobs[j].pc = "queued"

\* ----- BotManager.monitor_progress ----------------------------------------------
MonitorUnchanged ==
    UNCHANGED <<mgr_vars, cfg_vars, cnd_vars, phx_vars, lck_vars, aux_vars, wrk_vars>>

\* line 383: the test any() applies to a bot; it reads the state without the lock
\* faulty variant: a Completed bot also keeps the loop going
IsActiveOff(bot) == bot.progress.state # "idle"
IsActive(bot) == bot.progress.state = "active"

\* every worker execute has submitted has reached Completed
AllCompleted ==
    /\ Spawned # {}
    /\ \A b \in Spawned : bots[b].progress.state = "completed"

\* another thread calls monitor_progress on the manager
MonitorCall ==
    /\ mgr_pc \in {"ready", "collecting", "returned"}
    /\ mon_pc \in {"idle", "returned"}
    /\ mon_pc' = "scan"
    /\ mon_idx' = 0
    /\ mon_polled' = FALSE
    /\ mon_late' = 0
    /\ MonitorUnchanged

\* line 383, the loop condition: any() reads the bots of self.bots one after the
\* other and stops at the first Active one; the loop ends when there is none
MonitorScan ==
    /\ mon_pc = "scan"
    /\ IF bots = <<>>
       THEN mon_pc' = "returned" /\ mon_idx' = 0
       ELSE IF IsActive(bots[mon_idx + 1])
       THEN mon_pc' = "poll" /\ mon_idx' = 0
       ELSE IF mon_idx + 1 = Len(bots)
       THEN mon_pc' = "returned" /\ mon_idx' = 0
       ELSE mon_pc' = "scan" /\ mon_idx' = mon_idx + 1
    /\ UNCHANGED <<mon_polled, mon_late>>
    /\ MonitorUnchanged

\* lines 384-397: get_progress, then the callback (or the log lines)
MonitorPoll ==
    /\ mon_pc = "poll"
    /\ mon_pc' = "sleep"
    /\ mon_polled' = TRUE
    /\ mon_late' = IF AllCompleted THEN mon_late + 1 ELSE mon_late
    /\ UNCHANGED mon_idx
    /\ MonitorUnchanged

\* line 399: time.sleep(interval) returns, the condition is tested again
MonitorSleep ==
    /\ mon_pc = "sleep"
    /\ mon_pc' = "scan"
    /\ UNCHANGED <<mon_idx, mon_polled, mon_late>>
    /\ MonitorUnchanged

MonitorStep == MonitorScan \/ MonitorPoll \/ MonitorSleep

\* one execute call with a processor that never raises (the loop looks at the
\* state of the workers only), and a thread that calls monitor_progress at any time
NextMonitor ==
    \/ Construct
    \/ \E n \in 0..MaxTotalTasks : ExecuteOnce(TaskList(n))
    \/ \E b \in 1..Len(bots) : Collect(b)
    \/ Return
    \/ \E b \in 1..Len(bots) : BotStart(b)
    \/ \E b \in 1..Len(bots) : BotSetCurrent(b)
    \/ \E b \in 1..Len(bots) : BotAttempt(b, TRUE)
    \/ \E b \in 1..Len(bots) : BotSucceeded(b)
    \/ \E b \in 1..Len(bots) : BotFailed(b)
    \/ \E b \in 1..Len(bots) : BotAppend(b)
    \/ \E b \in 1..Len(bots) : BotFinish(b)
    \/ \E b \in 1..Len(bots) : BotReturn(b)
    \/ MonitorCall
    \/ MonitorScan
    \/ MonitorPoll
    \/ MonitorSleep

SpecMonitor == Init /\ [][NextMonitor]_vars

\* a poll begins only at a test of the loop condition that finds an Active worker
PollsOnlyWhileActive ==
    (mon_pc' = "poll" /\ mon_pc # "poll") =>
        /\ mon_pc = "scan"
        /\ \E b \in 1..Len(bots) : bots[b].progress.state = "active"

\* no poll is made as long as no worker has become Active; once every worker is
\* Completed at most one poll follows; the loop never waits for anything
MonitorBounded ==
    /\ (\A b \in 1..Len(bots) : bots[b].progress.state = "idle") =>
          (mon_pc # "poll" /\ ~mon_polled)
    /\ mon_late <= 1
    /\ mon_pc \in {"scan", "poll", "sleep"} => ENABLED MonitorStep

\* C40: monitor_progress polls only while a worker is Active: it returns without
\* a poll when no worker is Active when it is called (none has started, or none
\* exists), and once every worker has reached Completed the loop ends after at
\* most one further poll
C40_MonitorProgress == []MonitorBounded /\ [][PollsOnlyWhileActive]_vars

\* the last worker completed between the test of the condition and the poll:
\* the one further poll was made and the loop has ended
C40_Witness ==
    /\ mon_pc = "returned"
    /\ mon_late = 1
    /\ AllCompleted
    /\ Cardinality(Spawned) = 2

====
